---- MODULE Spec2Model ----
(***************************************************************************)
(* A model of rpc-scope's asynchronous cores:                              *)
(*   - message_manager.py: MessageManager (receiver thread, pending        *)
(*     callback tables) with its Echo and Leica key derivations;           *)
(*   - scope/simple_rpc/rpc_client.py: ZMQClient (call, wait loop,         *)
(*     heartbeat flag, interrupt, reconnect) and RPCClient.proxy_namespace *)
(*     with ClientNamespace.                                               *)
(*   - message_manager.py: SerialMessageManager._receive_message, the      *)
(*     framing of the serial byte stream.                                  *)
(*   - scope/util/state_stack.py: StateStackDevice (push_state,            *)
(*     pop_state, in_state).                                               *)
(*   - scope/timecourse/scope_job_runner.py: JobRunner (the daemon's main  *)
(*     loop, its signal handlers, add_job, resume_job and stop).           *)
(*   - scope_client.py: LiveStreamer (get_image and _live_update).         *)
(* Each part has a specification of its own (SpecMM, SpecLeica, SpecRPC,   *)
(* SpecLate, SpecNS, SpecSerial, SpecStack, SpecInState, SpecJobs,         *)
(* SpecLive); the variables of the other parts are held fixed in it.       *)
(***************************************************************************)
EXTENDS Integers, Sequences, FiniteSets, TLC

(***************************************************************************)
(* Bounds of the model.                                                    *)
(***************************************************************************)
\* send_message calls made by the foreground thread
MaxSends == 2
\* messages the transport delivers to the receiver thread
MaxRecv == 2

(***************************************************************************)
(* Values.                                                                 *)
(***************************************************************************)
\* Python's None, as a value comparable with the messages (sequences of characters)
None == <<"None">>

\* Serial messages, as the sequences of their characters.
Msg_1H001 == <<"1", "H", "0", "0", "1">>
Msg_Status == <<"$", "8", "3", "0", "2", "3">>
Msg_Empty == <<>>
Messages == {Msg_1H001, Msg_Status, Msg_Empty}

\* Response keys the foreground thread registers callbacks under: a key that a
\* response of the manager can carry (an Echo response is its own key, the Leica
\* response '1H001' has the key '1H01').
Key_1H01 == <<"1", "H", "0", "1">>
RegKeys(mgr) == IF mgr = "Echo" THEN {Msg_Status} ELSE {Key_1H01}

Managers == {"Echo", "Leica"}

Min(a, b) == IF a < b THEN a ELSE b

\* Python's s[a:b] for 0 <= a <= b
Slice(s, a, b) == SubSeq(s, a + 1, Min(b, Len(s)))

\* dict operations on a table (a function whose domain is the set of its keys)
EmptyTable == [k \in {} |-> <<>>]
Put(t, k, v) == [x \in (DOMAIN t) \cup {k} |-> IF x = k THEN v ELSE t[x]]
Pop(t, k) == [x \in (DOMAIN t) \ {k} |-> t[x]]
\* defaultdict(list)[k].append(e)
\* (mutant) nothing is appended
AppendTo_Nothing(t, k, e) == t

AppendTo(t, k, e) == Put(t, k, IF k \in DOMAIN t THEN Append(t[k], e) ELSE <<e>>)

VARIABLES
    \* ---- MessageManager ----
    manager,                        \* which subclass the object is
    pending_grouped_responses,      \* key -> list of <<callback, onetime>>
    pending_standalone_responses,   \* key -> list of callbacks
    running,                        \* self.running
    pc_run,                         \* the receiver thread's position in run()
    response, response_key, handled, remaining_callbacks,  \* run()'s locals
    pc_send,                        \* the foreground thread's position in send_message()
    regs,                           \* history: the send_message calls, in order
    recvs,                          \* history: the messages received, in order
    calls,                          \* history: <<callback, n>>: callback called with recvs[n]
    unexpected,                     \* history: n for which _handle_unexpected_response ran
    sent,                           \* history: send_message calls whose message reached _send_message
    stop_requested,                 \* history: some thread has set running to False
    \* ---- ZMQClient ----
    timeout_sec,                    \* self.timeout_sec, in ticks
    heartbeat_error,                \* self.heartbeat_error
    socket,                         \* self.socket: the REQ socket (an object id)
    interrupt_socket,               \* self.interrupt_socket: NoObject or an object id
    heartbeat_client,               \* self.heartbeat_client: NoObject or an object id
    addrs,                          \* rpc_addr, interrupt_addr, heartbeat_addr, heartbeat_interval_sec
    objects,                        \* objects created so far; closed: those closed or stopped
    closed,
    now,                            \* time.time(), in ticks since the call began (0 between calls)
    pc_call,                        \* the caller's position in __call__
    timeout_time,                   \* _receive_reply's local
    poll_until,                     \* when the socket.poll(500) in progress gives up
    interrupted,                    \* __call__ is in its except KeyboardInterrupt branch
    inbox,                          \* the reply the REQ socket holds for its last request
    awaiting,                       \* the server has not answered the last request
    missed,                         \* heartbeat client: consecutive missed probes
    result,                         \* how the last call ended
    wait,                           \* history of the wait in progress
    counts,                         \* history: requests sent, interrupts sent in the last call, reconnects,
                                    \* the request the reply in the socket answers, the requests whose
                                    \* call timed out unanswered, the replies that came late
    \* ---- the namespace of proxy_namespace ----
    pc_ns,                          \* proxy_namespace has not run, has returned, or has raised
    catalog,                        \* the reply to __DESCRIBE__: the qualified names, in order
    classes,                        \* key of client_namespaces -> attributes of its NewNamespace class
    dicts,                          \* object -> its own attributes (__dict__)
    attrs_locked,                   \* the namespace objects whose __attrs_locked is True
    ns_requests,                    \* history: the remote calls made through the namespace
    ns_last,                        \* history: the last operation on the namespace and what it raised
    ns_ops,                         \* history: number of operations on the built namespace
    \* ---- SerialMessageManager._receive_message ----
    response_terminator,            \* self.response_terminator, a sequence of bytes
    port_buffer,                    \* the serial port's input buffer (inWaiting() is its length)
    read_size,                      \* the argument of the serialport.read in progress
    response_bytes,                 \* _receive_message's local response, a bytearray
    pc_recv,                        \* the receiver thread's position in _receive_message
    device,                         \* history: the bytes the device has written, in order
    returned,                       \* history: the values _receive_message returned, in order
    chunks,                         \* history: what each read of the call in progress returned
    \* ---- StateStackDevice ----
    props,                          \* the device: property -> the value its getter returns
    state_stack,                    \* self._state_stack: a list of old states
    open,                           \* history: the push_state calls and in_state blocks that are open
    ss_last,                        \* history: the last pop_state or in_state that ended, and how
    \* ---- JobRunner ----
    jobs,                           \* the backing file of _JobList: the jobs, in file order
    job_file,                       \* the current-job marker file: its content, "" when absent
    asleep,                         \* self.asleep
    daemon_running,                 \* JobRunner's self.running
    pc_d,                           \* the daemon's position in run_daemon
    job,                            \* run_daemon's local job
    sighup_pending,                 \* a SIGHUP has been sent and its handler has not run
    sigint_pending,                 \* a SIGINT has been sent and its handler has not run
    pc_client,                      \* the client's position in add_job / resume_job
    pc_stop,                        \* the position of the process that calls stop()
    died,                           \* history: the exception that ended run_daemon
    runs,                           \* history: the job runs, how each process ended and the
                                    \* status the job had in the file at that moment
    client_ops,                     \* history: number of add_job and resume_job calls
    \* ---- LiveStreamer ----
    image_received,                 \* self.image_received (a threading.Event)
    frame_no,                       \* self.frame_no
    pc_get,                         \* the main thread's position in get_image()
    get_image,                      \* get_image()'s local image, and the update whose
                                    \* set() let wait() return
    pc_update,                      \* the property client thread's position in
                                    \* _live_update(), with its argument frame_no
    live,                           \* history: frames published, callbacks made, updates
                                    \* accepted
    got                             \* history: what the last get_image() returned

mmVars == <<manager, pending_grouped_responses, pending_standalone_responses, running,
            pc_run, response, response_key, handled, remaining_callbacks, pc_send,
            regs, recvs, calls, unexpected, sent, stop_requested>>

rpcVars == <<timeout_sec, heartbeat_error, socket, interrupt_socket, heartbeat_client,
             addrs, objects, closed, now, pc_call, timeout_time, poll_until, interrupted,
             inbox, awaiting, missed, result, wait, counts>>

nsVars == <<pc_ns, catalog, classes, dicts, attrs_locked, ns_requests, ns_last, ns_ops>>

serialVars == <<response_terminator, port_buffer, read_size, response_bytes, pc_recv,
                device, returned, chunks>>

ssVars == <<props, state_stack, open, ss_last>>

jobVars == <<jobs, job_file, asleep, daemon_running, pc_d, job, sighup_pending,
                sigint_pending, pc_client, pc_stop, died, runs, client_ops>>

liveVars == <<image_received, frame_no, pc_get, get_image, pc_update, live, got>>

\* self.frame_no before the first accepted update: the attribute does not exist
NoFrameNo == -1

vars == <<mmVars, rpcVars, nsVars, serialVars, ssVars, jobVars, liveVars>>

\* What the actions of one part leave alone: the variables of the other parts.
notMM == <<rpcVars, nsVars, serialVars, ssVars, jobVars, liveVars>>
notRPC == <<mmVars, nsVars, serialVars, ssVars, jobVars, liveVars>>
notNS == <<mmVars, rpcVars, serialVars, ssVars, jobVars, liveVars>>

(***************************************************************************)
(* Key derivation.                                                         *)
(***************************************************************************)
\* LeicaMessageManager._generate_response_key evaluates response[0]: IndexError on
\* the empty string, TypeError on None. EchoMessageManager returns its argument.
GenerateResponseKeyRaises(mgr, resp) ==
    mgr = "Leica" /\ (resp = None \/ Len(resp) = 0)

\* (mutant) the error code is kept in the key
LeicaKey_WithErrorCode(resp) == Slice(resp, 0, 5)

LeicaKey(resp) ==
    IF resp[1] = "$"
    THEN Slice(resp, 0, 6)
    ELSE Slice(resp, 0, 2) \o Slice(resp, 3, 5)

GenerateResponseKey(mgr, resp) ==
    IF mgr = "Echo" THEN resp ELSE LeicaKey(resp)

(***************************************************************************)
(* MessageManager.__init__                                                 *)
(***************************************************************************)
InitMM ==
    /\ manager \in Managers
    /\ pending_grouped_responses = EmptyTable
    /\ pending_standalone_responses = EmptyTable
    /\ running = FALSE
    /\ pc_run = "start"
    /\ response = None
    /\ response_key = None
    /\ handled = FALSE
    /\ remaining_callbacks = <<>>
    /\ pc_send = "idle"
    /\ regs = <<>>
    /\ recvs = <<>>
    /\ calls = <<>>
    /\ unexpected = <<>>
    /\ sent = <<>>
    /\ stop_requested = FALSE
    \* the RPC client is not part of this specification
    /\ timeout_sec = 0 /\ heartbeat_error = FALSE /\ socket = 0 /\ interrupt_socket = 0
    /\ heartbeat_client = 0 /\ addrs = <<>> /\ objects = 0 /\ closed = {} /\ now = 0
    /\ pc_call = "idle" /\ timeout_time = 0 /\ poll_until = 0 /\ interrupted = FALSE
    /\ inbox = <<>> /\ awaiting = FALSE /\ missed = 0 /\ result = <<>> /\ wait = <<>>
    /\ counts = <<>>
    \* nor is the namespace
    /\ pc_ns = "unbuilt" /\ catalog = <<>> /\ classes = EmptyTable /\ dicts = EmptyTable
    /\ attrs_locked = {} /\ ns_requests = <<>> /\ ns_last = <<>> /\ ns_ops = 0
    \* nor is the framing of the serial stream
    /\ response_terminator = <<>> /\ port_buffer = <<>> /\ read_size = 0
    /\ response_bytes = <<>> /\ pc_recv = "unused" /\ device = <<>> /\ returned = <<>>
    /\ chunks = <<>>
    /\ props = <<>> /\ state_stack = <<>> /\ open = <<>> /\ ss_last = <<>>
    /\ jobs = <<>> /\ job_file = "" /\ asleep = FALSE /\ daemon_running = FALSE
    /\ pc_d = "unused" /\ job = <<>> /\ sighup_pending = FALSE /\ sigint_pending = FALSE
    /\ pc_client = "idle" /\ pc_stop = "idle" /\ died = "" /\ runs = <<>> /\ client_ops = 0
    /\ image_received = FALSE /\ frame_no = NoFrameNo /\ pc_get = "unused"
    /\ get_image = [image |-> NoFrameNo, set_by |-> NoFrameNo]
    /\ pc_update = [at |-> "idle", frame_no |-> NoFrameNo]
    /\ live = [published |-> 0, callbacks |-> 0, set_by |-> NoFrameNo, returns |-> 0,
               since_return |-> 0, since_clear |-> 0]
    /\ got = [image |-> NoFrameNo, frame_no |-> NoFrameNo, set_by |-> NoFrameNo, raised |-> ""]

history == <<regs, recvs, calls, unexpected, sent, stop_requested>>
runLocals == <<response, response_key, handled, remaining_callbacks>>
tables == <<pending_grouped_responses, pending_standalone_responses>>

(***************************************************************************)
(* MessageManager.run, the receiver thread.                                *)
(***************************************************************************)
\* self.running = True
RunStart ==
    /\ UNCHANGED notMM
    /\ pc_run = "start"
    /\ running' = TRUE
    /\ pc_run' = "loop"
    /\ UNCHANGED <<manager, tables, runLocals, pc_send, history>>

\* while self.running:
LoopTest ==
    /\ UNCHANGED notMM
    /\ pc_run = "loop"
    /\ pc_run' = IF running THEN "receive" ELSE "exited"
    /\ UNCHANGED <<manager, tables, running, runLocals, pc_send, history>>

\* What run() does with the value _receive_message returned: derive the key.
Received(resp) ==
    /\ response' = resp
    /\ handled' = FALSE
    /\ IF GenerateResponseKeyRaises(manager, resp)
       THEN /\ pc_run' = "crashed"
            /\ UNCHANGED response_key
       ELSE /\ pc_run' = "grouped"
            /\ response_key' = GenerateResponseKey(manager, resp)

\* _receive_message returns a message of the device.
Receive(m) ==
    /\ UNCHANGED notMM
    /\ pc_run = "receive"
    /\ Len(recvs) < MaxRecv
    /\ recvs' = Append(recvs, m)
    /\ Received(m)
    /\ UNCHANGED <<manager, tables, running, remaining_callbacks, pc_send,
                   regs, calls, unexpected, sent, stop_requested>>

\* SerialMessageManager._receive_message leaves its loop when self.running is
\* False and returns None.
ReceiveNone ==
    /\ UNCHANGED notMM
    /\ pc_run = "receive"
    /\ ~running
    /\ Received(None)
    /\ UNCHANGED <<manager, tables, running, remaining_callbacks, pc_send, history>>

\* (mutant) only the first callback of the list is called
CalledOf_OnlyFirst(callbacks) ==
    IF callbacks = <<>> THEN <<>> ELSE <<callbacks[1][1]>>

\* The callbacks the loop of lines 44-47 calls: each one up to and including the
\* first that is not onetime.
RECURSIVE CalledOf(_)
CalledOf(callbacks) ==
    IF callbacks = <<>> THEN <<>>
    ELSE IF ~callbacks[1][2] THEN <<callbacks[1][1]>>
    ELSE <<callbacks[1][1]>> \o CalledOf(Tail(callbacks))

\* Line 47 names self.pending_responses, an attribute no class defines: the
\* first callback that is not onetime ends the loop with AttributeError.
GroupedLoopRaises(callbacks) ==
    \E i \in 1..Len(callbacks) : ~callbacks[i][2]

\* (mutant) the key's list is read but not popped
GroupedAfter_NoPop(table, key) == table

\* The table after lines 43-47
GroupedAfter(table, key) == Pop(table, key)

CallsFor(cbs, n) == [i \in 1..Len(cbs) |-> <<cbs[i], n>>]

\* lines 42-48
Grouped ==
    /\ UNCHANGED notMM
    /\ pc_run = "grouped"
    /\ IF response_key \in DOMAIN pending_grouped_responses
       THEN LET callbacks == pending_grouped_responses[response_key] IN
            /\ pending_grouped_responses' =
                   GroupedAfter(pending_grouped_responses, response_key)
            /\ calls' = calls \o CallsFor(CalledOf(callbacks), Len(recvs))
            /\ IF GroupedLoopRaises(callbacks)
               THEN pc_run' = "crashed" /\ UNCHANGED handled
               ELSE pc_run' = "standalone" /\ handled' = TRUE
       ELSE /\ pc_run' = "standalone"
            /\ UNCHANGED <<pending_grouped_responses, calls, handled>>
    /\ UNCHANGED <<manager, pending_standalone_responses, running, response,
                   response_key, remaining_callbacks, pc_send,
                   regs, recvs, unexpected, sent, stop_requested>>

\* (mutant) the handler is not called
HandleUnexpectedResponse_Skipped ==
    UNCHANGED unexpected

\* _handle_unexpected_response, of the base class and of LeicaMessageManager:
\* both only print.
HandleUnexpectedResponse ==
    unexpected' = Append(unexpected, Len(recvs))

\* lines 50-52, and lines 57-58 when the key is in neither table
Standalone ==
    /\ UNCHANGED notMM
    /\ pc_run = "standalone"
    /\ IF response_key \in DOMAIN pending_standalone_responses
       THEN LET popped == pending_standalone_responses[response_key] IN
            /\ pending_standalone_responses' =
                   Pop(pending_standalone_responses, response_key)
            /\ calls' = Append(calls, <<Head(popped), Len(recvs)>>)
            /\ remaining_callbacks' = Tail(popped)
            /\ pc_run' = "requeue"
            /\ UNCHANGED unexpected
       ELSE /\ IF handled THEN UNCHANGED unexpected ELSE HandleUnexpectedResponse
            /\ pc_run' = "loop"
            /\ UNCHANGED <<pending_standalone_responses, calls, remaining_callbacks>>
    /\ UNCHANGED <<manager, pending_grouped_responses, running, response, response_key,
                   handled, pc_send, regs, recvs, sent, stop_requested>>

\* The key line 54 stores the remaining callbacks under: the response.
RequeueKey == response

\* lines 53-55
Requeue ==
    /\ UNCHANGED notMM
    /\ pc_run = "requeue"
    /\ pending_standalone_responses' =
           IF remaining_callbacks # <<>>
           THEN Put(pending_standalone_responses, RequeueKey, remaining_callbacks)
           ELSE pending_standalone_responses
    /\ handled' = TRUE
    /\ pc_run' = "loop"
    /\ UNCHANGED <<manager, pending_grouped_responses, running, response, response_key,
                   remaining_callbacks, pc_send, history>>

(***************************************************************************)
(* MessageManager.send_message, called by the foreground thread.           *)
(***************************************************************************)
\* (mutant) no assertion
AssertionFails_Never(has_callback, onetime, coalesce) == FALSE

\* assert(onetime or coalesce), evaluated only with a key and a callback
AssertionFails(has_callback, onetime, coalesce) ==
    has_callback /\ ~(onetime \/ coalesce)

\* lines 94-99. The callback of the i-th call is callback i.
SendMessage(key, has_callback, onetime, coalesce) ==
    /\ UNCHANGED notMM
    /\ pc_send = "idle"
    /\ Len(regs) < MaxSends
    /\ LET cb == Len(regs) + 1
           failed == AssertionFails(has_callback, onetime, coalesce)
       IN
       /\ regs' = Append(regs, [key |-> key, has_callback |-> has_callback,
                                onetime |-> onetime, coalesce |-> coalesce,
                                at |-> Len(recvs), raised |-> failed])
       /\ pc_send' = IF failed THEN "idle" ELSE "send"
       /\ IF has_callback /\ ~failed /\ coalesce
          THEN pending_grouped_responses' =
                   AppendTo(pending_grouped_responses, key, <<cb, onetime>>)
          ELSE UNCHANGED pending_grouped_responses
       /\ IF has_callback /\ ~failed /\ ~coalesce
          THEN pending_standalone_responses' =
                   AppendTo(pending_standalone_responses, key, cb)
          ELSE UNCHANGED pending_standalone_responses
    /\ UNCHANGED <<manager, running, pc_run, runLocals, recvs, calls, unexpected,
                   sent, stop_requested>>

\* line 100: self._send_message(message)
Transmit ==
    /\ UNCHANGED notMM
    /\ pc_send = "send"
    /\ sent' = Append(sent, Len(regs))
    /\ pc_send' = "idle"
    /\ UNCHANGED <<manager, tables, running, pc_run, runLocals, regs, recvs, calls,
                   unexpected, stop_requested>>

\* "To cause the thread to stop running, set the 'running' attribute to False."
Stop ==
    /\ UNCHANGED notMM
    /\ ~stop_requested
    /\ stop_requested' = TRUE
    /\ running' = FALSE
    /\ UNCHANGED <<manager, tables, pc_run, runLocals, pc_send, regs, recvs, calls,
                   unexpected, sent>>

NextMM ==
    \/ RunStart
    \/ LoopTest
    \/ \E m \in Messages : Receive(m)
    \/ Grouped
    \/ Standalone
    \/ Requeue
    \/ \E key \in RegKeys(manager), onetime \in BOOLEAN, coalesce \in BOOLEAN :
           SendMessage(key, TRUE, onetime, coalesce)
    \/ SendMessage(None, FALSE, TRUE, TRUE)
    \/ Transmit

\* The manager while no thread stops it.
SpecMM == InitMM /\ [][NextMM]_vars

\* The manager with a thread that sets running to False.
NextMMStop ==
    \/ NextMM
    \/ ReceiveNone
    \/ Stop

SpecMMStop == InitMM /\ [][NextMMStop]_vars

(***************************************************************************)
(* Readings of the histories.                                              *)
(***************************************************************************)
Derivable(n) == ~GenerateResponseKeyRaises(manager, recvs[n])
RecvKey(n) == GenerateResponseKey(manager, recvs[n])
HasKey(n, K) == Derivable(n) /\ RecvKey(n) = K

CalledIn(c, n) == \E i \in 1..Len(calls) : calls[i] = <<c, n>>
NumCalls(c) == Cardinality({i \in 1..Len(calls) : calls[i][1] = c})

IsGrouped(c) == regs[c].has_callback /\ regs[c].coalesce
IsStandalone(c) == regs[c].has_callback /\ ~regs[c].coalesce /\ regs[c].onetime
IsRejected(c) == regs[c].has_callback /\ ~regs[c].coalesce /\ ~regs[c].onetime

PendingGrouped(c, K) ==
    /\ K \in DOMAIN pending_grouped_responses
    /\ \E i \in 1..Len(pending_grouped_responses[K]) :
           pending_grouped_responses[K][i][1] = c
PendingStandalone(c, K) ==
    /\ K \in DOMAIN pending_standalone_responses
    /\ \E i \in 1..Len(pending_standalone_responses[K]) :
           pending_standalone_responses[K][i] = c
PendingAnywhere(c) ==
    \/ \E K \in DOMAIN pending_grouped_responses : PendingGrouped(c, K)
    \/ \E K \in DOMAIN pending_standalone_responses : PendingStandalone(c, K)

\* The receiver has passed lines 42-48 for the n-th message.
GroupedReached(n) == Len(recvs) > n \/ (Len(recvs) = n /\ pc_run # "grouped")
\* The receiver has passed lines 50-52 for the n-th message.
StandaloneDone(n) ==
    Len(recvs) > n \/ (Len(recvs) = n /\ pc_run \in {"requeue", "loop", "receive", "exited"})
\* The receiver has finished the iteration of the n-th message.
IterDone(n) ==
    Len(recvs) > n \/ (Len(recvs) = n /\ pc_run \in {"loop", "receive", "exited"})

FirstWithKey(n, K) == HasKey(n, K) /\ \A k \in 1..(n - 1) : ~HasKey(k, K)
NextWithKey(n, n2, K) ==
    n < n2 /\ HasKey(n2, K) /\ \A k \in (n + 1)..(n2 - 1) : ~HasKey(k, K)

(***************************************************************************)
(* C1..C5: the receiver loop and send_message.                             *)
(***************************************************************************)
\* C1 (as claimed): when c1 and c2 are the first two standalone callbacks
\* registered under K, in this order and both before the first response with key
\* K, that response calls c1 and not c2, c2 is pending under K once the response
\* has been handled, and the next response with key K calls c2.
C1_StandaloneFifo ==
    \A c1, c2 \in 1..Len(regs) : \A n \in 1..Len(recvs) :
        LET K == regs[c1].key IN
        ( /\ c1 < c2
          /\ IsStandalone(c1) /\ IsStandalone(c2) /\ regs[c2].key = K
          /\ \A d \in 1..(c2 - 1) : (d # c1 /\ IsStandalone(d)) => regs[d].key # K
          /\ regs[c2].at < n
          /\ FirstWithKey(n, K) )
        =>
        /\ StandaloneDone(n) => (CalledIn(c1, n) /\ ~CalledIn(c2, n))
        /\ (IterDone(n) /\ Len(recvs) = n) => PendingStandalone(c2, K)
        /\ \A n2 \in 1..Len(recvs) :
               (NextWithKey(n, n2, K) /\ StandaloneDone(n2)) => CalledIn(c2, n2)

\* C2 (as claimed): a grouped callback registered with onetime=False that a
\* response with key K has called leaves the loop running, is pending under K
\* again once that response has been handled, and is called by the next response
\* with key K.
C2_PersistentRequeued ==
    \A c \in 1..Len(regs) : \A n \in 1..Len(recvs) :
        LET K == regs[c].key IN
        (IsGrouped(c) /\ ~regs[c].onetime /\ CalledIn(c, n))
        =>
        /\ pc_run # "crashed"
        /\ (IterDone(n) /\ Len(recvs) = n) => PendingGrouped(c, K)
        /\ \A n2 \in 1..Len(recvs) :
               (NextWithKey(n, n2, K) /\ GroupedReached(n2)) => CalledIn(c, n2)

\* C3: a grouped callback registered with onetime=True under K, every grouped
\* callback of K being onetime, is called exactly once, with a response of key K:
\* by the time lines 42-48 are over for a response with key K that arrived after
\* the registration it has been called, it is then no longer pending, and no
\* later response calls it again.
C3_GroupedOnetimeOnce ==
    \A c \in 1..Len(regs) :
        LET K == regs[c].key IN
        (IsGrouped(c) /\ regs[c].onetime)
        =>
        /\ NumCalls(c) <= 1
        /\ \A i \in 1..Len(calls) : calls[i][1] = c => HasKey(calls[i][2], K)
        /\ NumCalls(c) = 1 => ~PendingAnywhere(c)
        /\ (\A d \in 1..Len(regs) : (IsGrouped(d) /\ regs[d].key = K) => regs[d].onetime)
           => \A n \in 1..Len(recvs) :
                  (regs[c].at < n /\ HasKey(n, K) /\ GroupedReached(n)) => NumCalls(c) = 1

\* Two onetime grouped callbacks registered under one key before a response with
\* that key, both called by it, and a later response with the same key handled.
C3_Witness ==
    \E c1, c2 \in 1..Len(regs) : \E n, n2 \in 1..Len(recvs) :
        /\ c1 < c2 /\ n < n2
        /\ IsGrouped(c1) /\ regs[c1].onetime /\ IsGrouped(c2) /\ regs[c2].onetime
        /\ regs[c1].key = regs[c2].key
        /\ regs[c2].at < n
        /\ CalledIn(c1, n) /\ CalledIn(c2, n)
        /\ HasKey(n2, regs[c1].key) /\ IterDone(n2)

\* C4, the states: a send_message call with a key, a callback, onetime=False and
\* coalesce=False has raised, its callback is in no table and its message was not
\* handed to _send_message.
C4_RejectedState ==
    \A c \in 1..Len(regs) :
        IsRejected(c) =>
            /\ regs[c].raised
            /\ ~PendingAnywhere(c)
            /\ \A i \in 1..Len(sent) : sent[i] # c
            /\ (c = Len(regs) => pc_send = "idle")

\* C4, the step: such a call changes neither pending table and sends nothing.
C4_RejectedStep ==
    ( /\ Len(regs') = Len(regs) + 1
      /\ regs'[Len(regs')].has_callback
      /\ ~regs'[Len(regs')].coalesce
      /\ ~regs'[Len(regs')].onetime )
    => UNCHANGED <<pending_grouped_responses, pending_standalone_responses, sent>>

\* C4: send_message with a key, a callback, onetime=False and coalesce=False
\* fails in the call: nothing is sent and neither pending table changes.
C4_InvalidCombinationRejected == []C4_RejectedState /\ [][C4_RejectedStep]_vars

\* A rejected call made while a callback of an earlier, sent call was pending.
C4_Witness ==
    \E c \in 1..Len(regs) :
        /\ IsRejected(c)
        /\ \E d \in 1..(c - 1) : PendingAnywhere(d)
        /\ Len(sent) > 0

\* C5 (as claimed): while running is true the receiver loop is not ended by a
\* message it received: it goes on to the next receive.
C5_LoopSurvives ==
    running => pc_run # "crashed"

(***************************************************************************)
(* C15..C18: send_message against the receiver thread.                     *)
(***************************************************************************)
Registers(c) == regs[c].has_callback /\ ~regs[c].raised
PendingUnderKey(c) ==
    IF regs[c].coalesce THEN PendingGrouped(c, regs[c].key)
    ELSE PendingStandalone(c, regs[c].key)

\* The receiver has taken the list of c's table for the n-th message, whose key
\* is the key of c.
Taken(c, n) ==
    /\ HasKey(n, regs[c].key)
    /\ IF regs[c].coalesce THEN GroupedReached(n) ELSE StandaloneDone(n)

\* The step of line 100 for the last send_message call.
Transmits == Len(sent') = Len(sent) + 1

C15_InsertedState ==
    /\ \A i \in 1..Len(sent) : sent[i] \in 1..Len(regs) /\ ~regs[sent[i]].raised
    /\ pc_send = "send" => (Len(regs) > 0 /\ \A i \in 1..Len(sent) : sent[i] # Len(regs))
    /\ \A c \in 1..Len(regs) :
           Registers(c) => (PendingUnderKey(c) \/ \E n \in 1..Len(recvs) : Taken(c, n))

\* C15 (amended), the steps: the call inserts the callback under its key and
\* sends nothing yet; line 100 sends the message of the last call and leaves
\* both tables alone.
C15_InsertedStep ==
    /\ (Len(regs') = Len(regs) + 1 /\ regs'[Len(regs')].has_callback
            /\ ~regs'[Len(regs')].raised)
           => /\ sent' = sent
              /\ pc_send' = "send"
              /\ LET c == Len(regs')
                     K == regs'[c].key
                     table == IF regs'[c].coalesce THEN pending_grouped_responses'
                              ELSE pending_standalone_responses'
                     entry == IF regs'[c].coalesce THEN <<c, regs'[c].onetime>> ELSE c
                 IN K \in DOMAIN table /\ table[K][Len(table[K])] = entry
    /\ Transmits
           => /\ pc_send = "send"
              /\ sent' = Append(sent, Len(regs))
              /\ UNCHANGED <<regs, pending_grouped_responses, pending_standalone_responses>>

GroupedStep == pc_run = "grouped" /\ pc_run' # "grouped"
StandaloneStep == pc_run = "standalone" /\ pc_run' # "standalone"

\* C16 (as claimed): a response whose key is in both tables calls every grouped
\* callback queued under the key and then exactly the first standalone callback
\* queued under it.
C16_BothTables ==
    [][/\ (GroupedStep /\ response_key \in DOMAIN pending_grouped_responses
               /\ response_key \in DOMAIN pending_standalone_responses)
          => LET callbacks == pending_grouped_responses[response_key]
             IN /\ calls' = calls \o [i \in 1..Len(callbacks) |->
                                          <<callbacks[i][1], Len(recvs)>>]
                /\ pc_run' = "standalone"
       /\ (StandaloneStep /\ handled
               /\ response_key \in DOMAIN pending_standalone_responses)
          => calls' = Append(calls, <<Head(pending_standalone_responses[response_key]),
                                      Len(recvs)>>)
      ]_vars

Unexpected(n) == \E i \in 1..Len(unexpected) : unexpected[i] = n

\* C17, the states: the handler runs at most once for a response, not for one
\* that called a callback, and by the end of the iteration it has run for every
\* response that called none.
C17_UnmatchedState ==
    /\ \A i, j \in 1..Len(unexpected) : unexpected[i] = unexpected[j] => i = j
    /\ \A n \in 1..Len(recvs) :
           /\ Unexpected(n) => (Derivable(n) /\ \A c \in 1..Len(regs) : ~CalledIn(c, n))
           /\ (IterDone(n) /\ Derivable(n) /\ \A c \in 1..Len(regs) : ~CalledIn(c, n))
                  => Unexpected(n)

\* C17, the steps: a response whose key is in neither table when lines 42 and 50
\* look it up goes to the handler; the handler's step calls no callback, changes
\* neither table and leads to the next test of the loop.
C17_UnmatchedStep ==
    /\ (StandaloneStep /\ ~handled
            /\ response_key \notin DOMAIN pending_standalone_responses)
           => unexpected' = Append(unexpected, Len(recvs))
    /\ (unexpected' # unexpected)
           => /\ StandaloneStep /\ ~handled
              /\ response_key \notin DOMAIN pending_standalone_responses
              /\ pc_run' = "loop"
              /\ UNCHANGED <<pending_grouped_responses, pending_standalone_responses,
                             calls, running>>

\* C17: a response whose key has a pending callback in neither table is passed
\* to _handle_unexpected_response exactly once, calls no callback and changes
\* neither table, and the loop goes on; a response that matched is not passed.
C17_UnmatchedHandled == []C17_UnmatchedState /\ [][C17_UnmatchedStep]_vars

\* With a callback pending under another key, an unmatched response went to the
\* handler, and the next response was received.
C17_Witness ==
    /\ Len(recvs) = 2
    /\ Unexpected(1)
    /\ \E c \in 1..Len(regs) : Registers(c) /\ regs[c].at = 0 /\ PendingUnderKey(c)

\* The test of line 35 is taken and the loop goes on or is left.
LoopTested == pc_run = "loop" /\ pc_run' # "loop"

\* C18 (as claimed): once a thread has set running to False, whenever after the
\* construction, the loop finishes at most the receive it is in: its next test
\* of self.running does not begin another receive but leaves the loop.
C18_StopEndsLoop ==
    [][(stop_requested /\ LoopTested) => pc_run' = "exited"]_vars

(***************************************************************************)
(* C21: LeicaMessageManager._generate_response_key, on responses that      *)
(* differ in the error code, short responses and status messages.          *)
(***************************************************************************)
Msg_1H101 == <<"1", "H", "1", "0", "1">>
Msg_StatusX == <<"$", "8", "3", "0", "2", "3", "X">>
Msg_Short == <<"1", "H">>
LeicaResponses == {Msg_1H001, Msg_1H101, Msg_StatusX, Msg_Short}

\* A LeicaMessageManager after its construction.
InitLeica ==
    /\ manager = "Leica"
    /\ pending_grouped_responses = EmptyTable
    /\ pending_standalone_responses = EmptyTable
    /\ running = FALSE
    /\ pc_run = "start"
    /\ response = None
    /\ response_key = None
    /\ handled = FALSE
    /\ remaining_callbacks = <<>>
    /\ pc_send = "idle"
    /\ regs = <<>>
    /\ recvs = <<>>
    /\ calls = <<>>
    /\ unexpected = <<>>
    /\ sent = <<>>
    /\ stop_requested = FALSE
    /\ timeout_sec = 0 /\ heartbeat_error = FALSE /\ socket = 0 /\ interrupt_socket = 0
    /\ heartbeat_client = 0 /\ addrs = <<>> /\ objects = 0 /\ closed = {} /\ now = 0
    /\ pc_call = "idle" /\ timeout_time = 0 /\ poll_until = 0 /\ interrupted = FALSE
    /\ inbox = <<>> /\ awaiting = FALSE /\ missed = 0 /\ result = <<>> /\ wait = <<>>
    /\ counts = <<>>
    /\ pc_ns = "unbuilt" /\ catalog = <<>> /\ classes = EmptyTable /\ dicts = EmptyTable
    /\ attrs_locked = {} /\ ns_requests = <<>> /\ ns_last = <<>> /\ ns_ops = 0
    /\ response_terminator = <<>> /\ port_buffer = <<>> /\ read_size = 0
    /\ response_bytes = <<>> /\ pc_recv = "unused" /\ device = <<>> /\ returned = <<>>
    /\ chunks = <<>>
    /\ props = <<>> /\ state_stack = <<>> /\ open = <<>> /\ ss_last = <<>>
    /\ jobs = <<>> /\ job_file = "" /\ asleep = FALSE /\ daemon_running = FALSE
    /\ pc_d = "unused" /\ job = <<>> /\ sighup_pending = FALSE /\ sigint_pending = FALSE
    /\ pc_client = "idle" /\ pc_stop = "idle" /\ died = "" /\ runs = <<>> /\ client_ops = 0
    /\ image_received = FALSE /\ frame_no = NoFrameNo /\ pc_get = "unused"
    /\ get_image = [image |-> NoFrameNo, set_by |-> NoFrameNo]
    /\ pc_update = [at |-> "idle", frame_no |-> NoFrameNo]
    /\ live = [published |-> 0, callbacks |-> 0, set_by |-> NoFrameNo, returns |-> 0,
               since_return |-> 0, since_clear |-> 0]
    /\ got = [image |-> NoFrameNo, frame_no |-> NoFrameNo, set_by |-> NoFrameNo, raised |-> ""]

\* The manager receiving Leica responses, with onetime callbacks registered
\* under the key of the command '1H' '01'.
NextLeica ==
    \/ RunStart
    \/ LoopTest
    \/ \E m \in LeicaResponses : Receive(m)
    \/ Grouped
    \/ Standalone
    \/ Requeue
    \/ \E coalesce \in BOOLEAN : SendMessage(Key_1H01, TRUE, TRUE, coalesce)
    \/ Transmit

SpecLeica == InitLeica /\ [][NextLeica]_vars

\* The key the claim gives for a response m: its first 6 characters when it
\* begins with '$', else its characters 0 and 1 followed by its characters 3
\* and 4 (as many of them as m has).
ClaimedKey(m) ==
    LET picked == IF m[1] = "$" THEN <<1, 2, 3, 4, 5, 6>> ELSE <<1, 2, 4, 5>>
        present == {i \in 1..Len(picked) : picked[i] <= Len(m)}
    IN [i \in 1..Cardinality(present) |-> m[picked[i]]]

\* m1 and m2 are command responses that differ in the error code only.
DifferInErrorCode(m1, m2) ==
    /\ Len(m1) = Len(m2) /\ Len(m1) >= 3
    /\ m1[1] # "$"
    /\ \A i \in 1..Len(m1) : (m1[i] # m2[i]) <=> (i = 3)

\* C21, the states: the key derived for the response in hand is the claimed one
\* ('1H001' gives '1H01', '$83023X' gives '$83023'), and every callback called
\* for a response was registered under that response's key, so that responses
\* which differ in the error code only call callbacks of the same key.
C21_KeyState ==
    /\ pc_run \in {"grouped", "standalone", "requeue"}
           => /\ response_key = ClaimedKey(response)
              /\ response = Msg_1H001 => response_key = Key_1H01
              /\ response = Msg_StatusX => response_key = Msg_Status
    /\ \A i \in 1..Len(calls) :
           regs[calls[i][1]].key = ClaimedKey(recvs[calls[i][2]])
    /\ \A n1, n2 \in 1..Len(recvs) :
           DifferInErrorCode(recvs[n1], recvs[n2]) => RecvKey(n1) = RecvKey(n2)

\* C21, the steps: a response whose key has grouped callbacks pending calls them
\* (all are onetime here), and one whose key has standalone callbacks pending
\* calls the first of them.
C21_DispatchStep ==
    /\ (GroupedStep /\ ClaimedKey(response) \in DOMAIN pending_grouped_responses)
           => calls' = calls \o
                  [i \in 1..Len(pending_grouped_responses[ClaimedKey(response)]) |->
                       <<pending_grouped_responses[ClaimedKey(response)][i][1], Len(recvs)>>]
    /\ (StandaloneStep /\ ClaimedKey(response) \in DOMAIN pending_standalone_responses)
           => calls' = Append(calls,
                  <<Head(pending_standalone_responses[ClaimedKey(response)]), Len(recvs)>>)

\* C21: the Leica key is the first 6 characters of a '$' message and otherwise
\* characters [0:2] + [3:5]; responses that differ in the error-code character
\* only have one key and are dispatched to the callbacks pending under it.
C21_LeicaKey == []C21_KeyState /\ [][C21_DispatchStep]_vars

\* A success response and an error response to the same command have each
\* called a callback registered under '1H01'.
C21_Witness ==
    /\ Len(recvs) = 2
    /\ DifferInErrorCode(recvs[1], recvs[2])
    /\ \E c1, c2 \in 1..Len(regs) :
           /\ regs[c1].key = Key_1H01 /\ regs[c2].key = Key_1H01
           /\ CalledIn(c1, 1) /\ CalledIn(c2, 2)

(***************************************************************************)
(* C35, C36: send_message against the receiver's dispatch.                 *)
(***************************************************************************)
\* Every callback pending in the grouped table under K is onetime.
AllOnetime(K) ==
    K \in DOMAIN pending_grouped_responses =>
        \A i \in 1..Len(pending_grouped_responses[K]) : pending_grouped_responses[K][i][2]

\* C35: nothing keeps send_message from registering a grouped callback while a
\* response with its key waits to be dispatched: the callback is then called
\* with that response, which was received before the callback's message was
\* sent, and is retired by it; a later response with the key that finds no
\* callback goes to the handler of unexpected responses.
C35_CalledForEarlierReply ==
    /\ [](\A n \in 1..Len(recvs) :
             (IterDone(n) /\ Derivable(n) /\ \A c \in 1..Len(regs) : ~CalledIn(c, n))
                 => Unexpected(n))
    /\ [][\A c \in 1..Len(regs) :
             ( /\ GroupedStep
               /\ IsGrouped(c) /\ regs[c].onetime
               /\ regs[c].at = Len(recvs)
               /\ regs[c].key = response_key
               /\ PendingGrouped(c, response_key)
               /\ AllOnetime(response_key) )
             => /\ CalledIn(c, Len(recvs))'
                /\ ~PendingAnywhere(c)'
                /\ pending_grouped_responses' # pending_grouped_responses
          ]_vars

\* Callback c2 was registered under the key of c1 after the response n had been
\* received, so the message of c2 was sent after that response; the response
\* called c1 and c2, and the next response with the key, received after the
\* message of c2 was sent, went to the handler of unexpected responses.
C35_Witness ==
    \E c1, c2 \in 1..Len(regs) : \E n, n2 \in 1..Len(recvs) :
        /\ c1 < c2 /\ n < n2
        /\ IsGrouped(c1) /\ IsGrouped(c2) /\ regs[c1].key = regs[c2].key
        /\ regs[c1].at < n /\ regs[c2].at = n
        /\ CalledIn(c1, n) /\ CalledIn(c2, n)
        /\ sent = <<c1, c2>>
        /\ HasKey(n2, regs[c2].key) /\ Unexpected(n2)

\* C36 (as claimed): a registered callback is pending under its key, or has
\* been called with a response of its key, or is in the hands of the receiver
\* between lines 51 and 54.
C36_NeverDiscarded ==
    \A c \in 1..Len(regs) :
        Registers(c) =>
            \/ PendingUnderKey(c)
            \/ \E n \in 1..Len(recvs) : CalledIn(c, n) /\ HasKey(n, regs[c].key)
            \/ /\ pc_run = "requeue"
               /\ \E i \in 1..Len(remaining_callbacks) : remaining_callbacks[i] = c

(***************************************************************************)
(* ZMQClient (scope/simple_rpc/rpc_client.py).                             *)
(*                                                                         *)
(* Time is counted in ticks of 250 ms, from the moment the call in         *)
(* progress began (the code reads time.time() only to compare it with a    *)
(* deadline it computed in the same call). It passes while the caller is   *)
(* blocked in socket.poll; the statements between two polls take no time.  *)
(***************************************************************************)
\* ticks the clock runs for
MaxTime == 4
\* calls made on the client
MaxCalls == 2
\* reconnect() calls
MaxReconnects == 1

\* socket.poll(500): 500 ms
PollTicks == 2
\* heartbeat.ZMQClient(..., max_missed=3, ...)
max_missed == 3

\* timeout_sec given to the constructor: 250 ms, 500 ms
TimeoutChoices == {1, 2}

\* None, for an attribute that holds an object
NoObject == 0
\* an attribute __init__ does not assign
Unset == "unset"

RpcAddr == "tcp://host:6000"
InterruptAddrs == {"tcp://host:6001", "tcp://other:6001"}
HeartbeatAddrs == {"tcp://host:6002"}
HeartbeatIntervals == {"1s"}

\* The payloads a server puts into a reply.
Payloads == {"p1", "p2"}
ReplyTypes == {"value", "error", "bindata"}
NoReply == <<>>

\* The second frame of a reply: JSON text, or a raw blob.
JsonEncode(v) == <<"json", v>>
RawFrame(b) == <<"raw", b>>
\* socket.recv_json(): the value the JSON text encodes
RecvJson(frame) == <<"value", frame[2]>>
\* socket.recv(copy=False, track=False).buffer: the bytes of the frame
RecvBuffer(frame) == <<"buffer", frame[2]>>

TimeoutMessage == <<"message", "Timed out waiting for reply from server (is it running?)">>
HeartbeatMessage == <<"message", "No \"heartbeat\" signal detected from server (is it still running?)">>
NoValue == <<"none", "none">>

\* How a call ended: what it returned or raised and, as history, the time its
\* last wait took.
NoResult == [kind |-> "none", value |-> NoValue, elapsed |-> 0]

\* History of the wait in progress: when it began (start), whether the heartbeat
\* flag has been true (flag) and a reply has been there (reply) at some time of
\* it, and since when the flag has been true in it (since).
NoWait == [start |-> 0, flag |-> FALSE, reply |-> FALSE, since |-> 0]

\* ZMQClient.__init__ and _connect
InitRPC ==
    /\ timeout_sec \in TimeoutChoices
    /\ heartbeat_error = FALSE
    /\ heartbeat_client = NoObject
    /\ interrupt_socket = NoObject
    /\ socket = 1
    /\ objects = 1
    /\ closed = {}
    /\ addrs = [rpc_addr |-> RpcAddr, interrupt_addr |-> Unset,
                heartbeat_addr |-> Unset, heartbeat_interval_sec |-> Unset]
    /\ now = 0
    /\ pc_call = "idle"
    /\ timeout_time = 0
    /\ poll_until = 0
    /\ interrupted = FALSE
    /\ inbox = NoReply
    /\ awaiting = FALSE
    /\ missed = 0
    /\ result = NoResult
    /\ wait = NoWait
    /\ counts = [sent |-> 0, interrupts |-> 0, reconnects |-> 0, failed_reconnects |-> 0,
                 after |-> "none", answered |-> 0, timed_out |-> {}, late |-> {}]
    \* the message manager is not part of this specification
    /\ manager = "Echo"
    /\ pending_grouped_responses = EmptyTable
    /\ pending_standalone_responses = EmptyTable
    /\ running = FALSE /\ pc_run = "start" /\ response = None /\ response_key = None
    /\ handled = FALSE /\ remaining_callbacks = <<>> /\ pc_send = "idle"
    /\ regs = <<>> /\ recvs = <<>> /\ calls = <<>> /\ unexpected = <<>> /\ sent = <<>>
    /\ stop_requested = FALSE
    \* nor is the namespace
    /\ pc_ns = "unbuilt" /\ catalog = <<>> /\ classes = EmptyTable /\ dicts = EmptyTable
    /\ attrs_locked = {} /\ ns_requests = <<>> /\ ns_last = <<>> /\ ns_ops = 0
    \* nor is the framing of the serial stream
    /\ response_terminator = <<>> /\ port_buffer = <<>> /\ read_size = 0
    /\ response_bytes = <<>> /\ pc_recv = "unused" /\ device = <<>> /\ returned = <<>>
    /\ chunks = <<>>
    /\ props = <<>> /\ state_stack = <<>> /\ open = <<>> /\ ss_last = <<>>
    /\ jobs = <<>> /\ job_file = "" /\ asleep = FALSE /\ daemon_running = FALSE
    /\ pc_d = "unused" /\ job = <<>> /\ sighup_pending = FALSE /\ sigint_pending = FALSE
    /\ pc_client = "idle" /\ pc_stop = "idle" /\ died = "" /\ runs = <<>> /\ client_ops = 0
    /\ image_received = FALSE /\ frame_no = NoFrameNo /\ pc_get = "unused"
    /\ get_image = [image |-> NoFrameNo, set_by |-> NoFrameNo]
    /\ pc_update = [at |-> "idle", frame_no |-> NoFrameNo]
    /\ live = [published |-> 0, callbacks |-> 0, set_by |-> NoFrameNo, returns |-> 0,
               since_return |-> 0, since_clear |-> 0]
    /\ got = [image |-> NoFrameNo, frame_no |-> NoFrameNo, set_by |-> NoFrameNo, raised |-> ""]

config == <<timeout_sec, addrs>>
channels == <<socket, interrupt_socket, heartbeat_client, objects, closed>>
waitLocals == <<timeout_time, poll_until>>

\* The wait that begins when _receive_reply is entered.
BeginWait(time, has_reply) ==
    /\ timeout_time' = time + timeout_sec
    /\ wait' = [start |-> time, flag |-> heartbeat_error, reply |-> has_reply,
                since |-> time]
    /\ pc_call' = "test"

\* The call ends: it returns, or raises.
EndCall(kind, value) ==
    /\ result' = [kind |-> kind, value |-> value, elapsed |-> now - wait.start]
    /\ pc_call' = "idle"
    /\ interrupted' = FALSE
    /\ now' = 0
    /\ timeout_time' = 0
    /\ poll_until' = 0
    /\ wait' = NoWait

\* History: "timeout" or "liveness" once reconnect() has followed a call that
\* failed so, "call_timeout" or "call_liveness" from the first call after that
\* reconnect() on, "none" otherwise.
AfterReconnect(last) ==
    IF last.kind = "RPCError" /\ last.value = TimeoutMessage THEN "timeout"
    ELSE IF last.kind = "RPCError" /\ last.value = HeartbeatMessage THEN "liveness"
    ELSE "none"

AfterCall(after) ==
    IF after = "timeout" THEN "call_timeout"
    ELSE IF after = "liveness" THEN "call_liveness"
    ELSE "none"

\* (mutant) replies are matched to requests by their order alone
REQ_CORRELATE_Off == FALSE

\* _connect, line 178: self.socket.REQ_CORRELATE = True. The socket tags each
\* request and discards every reply that does not carry the tag of the request
\* sent last; REQ_RELAXED (line 177) lets it send a request while the reply to
\* an earlier one is outstanding.
REQ_CORRELATE == TRUE

\* __call__, lines 31-33: _send, then _receive_reply is entered. A REQ socket
\* with REQ_RELAXED and REQ_CORRELATE drops the reply to an earlier request.
Call ==
    /\ UNCHANGED notRPC
    /\ pc_call = "idle"
    /\ counts.sent < MaxCalls
    /\ counts' = [counts EXCEPT !.sent = @ + 1, !.interrupts = 0,
                                !.after = AfterCall(@),
                                !.answered = IF REQ_CORRELATE THEN 0 ELSE @,
                                !.timed_out =
                                    IF /\ awaiting
                                       /\ result.kind = "RPCError"
                                       /\ result.value = TimeoutMessage
                                    THEN @ \cup {counts.sent} ELSE @]
    /\ now' = 0
    /\ inbox' = IF REQ_CORRELATE THEN NoReply ELSE inbox
    /\ awaiting' = TRUE
    /\ interrupted' = FALSE
    /\ result' = NoResult
    /\ BeginWait(0, FALSE)
    /\ UNCHANGED <<config, channels, heartbeat_error, poll_until, missed>>

\* (mutant) no deadline
TimedOut_Never == FALSE

\* line 217
TimedOut == now > timeout_time

\* (mutant) the flag is not read
HeartbeatDead_Never == FALSE

\* line 219
HeartbeatDead == heartbeat_error

\* (mutant) a call that times out sends its request again and waits anew
Test_Retrying ==
    /\ UNCHANGED notRPC
    /\ pc_call = "test"
    /\ IF TimedOut /\ counts.sent < MaxCalls
       THEN /\ counts' = [counts EXCEPT !.sent = @ + 1]
            /\ BeginWait(now, FALSE)
            /\ UNCHANGED <<result, now, interrupted, poll_until>>
       ELSE IF TimedOut
       THEN EndCall("RPCError", TimeoutMessage) /\ UNCHANGED counts
       ELSE IF HeartbeatDead
       THEN EndCall("RPCError", HeartbeatMessage) /\ UNCHANGED counts
       ELSE /\ pc_call' = "poll"
            /\ poll_until' = now + PollTicks
            /\ UNCHANGED <<result, timeout_time, wait, now, interrupted, counts>>
    /\ UNCHANGED <<config, channels, heartbeat_error, inbox, awaiting, missed>>

\* lines 217-221: the two tests, then the poll begins
Test ==
    /\ UNCHANGED notRPC
    /\ pc_call = "test"
    /\ IF TimedOut
       THEN EndCall("RPCError", TimeoutMessage)
       ELSE IF HeartbeatDead
       THEN EndCall("RPCError", HeartbeatMessage)
       ELSE /\ pc_call' = "poll"
            /\ poll_until' = now + PollTicks
            /\ UNCHANGED <<result, timeout_time, wait, now, interrupted>>
    /\ UNCHANGED <<config, channels, heartbeat_error, inbox, awaiting, missed, counts>>

\* line 221: poll returns 0 after 500 ms without data
PollExpires ==
    /\ UNCHANGED notRPC
    /\ pc_call = "poll"
    /\ inbox = NoReply
    /\ now = poll_until
    /\ pc_call' = "test"
    /\ UNCHANGED <<config, channels, heartbeat_error, now, waitLocals, interrupted,
                   inbox, awaiting, missed, result, wait, counts>>

\* (mutant) every reply but a plain value is an error
IsError_NotValue(reply_type) == reply_type # "value"

\* line 230: reply_type == 'error'
IsError(reply_type) == reply_type = "error"

\* lines 226-229
ReadReply(reply_type, frame) ==
    IF reply_type = "bindata" THEN RecvBuffer(frame) ELSE RecvJson(frame)

\* line 221 (poll returns true), lines 224-230, then __call__ lines 37-39
RecvReply ==
    /\ UNCHANGED notRPC
    /\ pc_call = "poll"
    /\ inbox # NoReply
    /\ LET reply_type == inbox[1]
           retval == ReadReply(reply_type, inbox[2])
       IN  IF IsError(reply_type)
           THEN EndCall("RPCError", retval)
           ELSE EndCall("return", retval)
    /\ inbox' = NoReply
    /\ UNCHANGED <<config, channels, heartbeat_error, awaiting, missed, counts>>

\* Time passes while the caller is blocked in poll.
Tick ==
    /\ UNCHANGED notRPC
    /\ pc_call = "poll"
    /\ inbox = NoReply
    /\ now < poll_until
    /\ now < MaxTime
    /\ now' = now + 1
    /\ UNCHANGED <<config, channels, heartbeat_error, pc_call, waitLocals, interrupted,
                   inbox, awaiting, missed, result, wait, counts>>

\* (mutant) the interrupt is counted as sent without looking at the socket
SendInterrupt_Always == counts' = [counts EXCEPT !.interrupts = @ + 1]

\* send_interrupt, lines 234-235
SendInterrupt ==
    counts' = [counts EXCEPT !.interrupts =
                   IF interrupt_socket # NoObject THEN @ + 1 ELSE @]

\* KeyboardInterrupt while _receive_reply is blocked in poll: __call__ lines
\* 34-36 the first time, out of __call__ the second time.
KeyboardInterrupt ==
    /\ UNCHANGED notRPC
    /\ pc_call = "poll"
    /\ IF ~interrupted
       THEN /\ interrupted' = TRUE
            /\ SendInterrupt
            /\ BeginWait(now, inbox # NoReply)
            /\ UNCHANGED <<result, poll_until, now>>
       ELSE /\ EndCall("KeyboardInterrupt", NoValue)
            /\ UNCHANGED counts
    /\ UNCHANGED <<config, channels, heartbeat_error, inbox, awaiting, missed>>

\* The server answers the last request; the reply reaches the REQ socket.
ServerReply(reply_type, payload) ==
    /\ UNCHANGED notRPC
    /\ awaiting
    /\ awaiting' = FALSE
    /\ inbox' = <<reply_type,
                  IF reply_type = "bindata" THEN RawFrame(payload) ELSE JsonEncode(payload)>>
    /\ wait' = IF pc_call # "idle" THEN [wait EXCEPT !.reply = TRUE] ELSE wait
    /\ counts' = [counts EXCEPT !.answered = counts.sent]
    /\ UNCHANGED <<config, channels, heartbeat_error, now, pc_call, waitLocals,
                   interrupted, missed, result>>

\* The server's reply to a request whose call timed out reaches the REQ socket
\* after a later request was sent on it: the socket discards it (REQ_CORRELATE).
LateReply(request, reply_type, payload) ==
    /\ UNCHANGED notRPC
    /\ request \in counts.timed_out \ {l.request : l \in counts.late}
    /\ IF REQ_CORRELATE
       THEN /\ counts' = [counts EXCEPT !.late = @ \cup {[request |-> request,
                                                             waiting |-> pc_call # "idle"]}]
            /\ UNCHANGED <<inbox, wait>>
       ELSE /\ counts' = [counts EXCEPT !.late = @ \cup {[request |-> request,
                                                             waiting |-> pc_call # "idle"]},
                                        !.answered = request]
            /\ inbox' = <<reply_type,
                          IF reply_type = "bindata" THEN RawFrame(payload)
                          ELSE JsonEncode(payload)>>
            /\ wait' = IF pc_call # "idle" THEN [wait EXCEPT !.reply = TRUE] ELSE wait
    /\ UNCHANGED <<config, channels, heartbeat_error, now, pc_call, waitLocals,
                   interrupted, awaiting, missed, result>>

\* enable_interrupt, lines 182-184
EnableInterrupt(interrupt_addr) ==
    /\ UNCHANGED notRPC
    /\ pc_call = "idle"
    /\ counts.sent = 0
    /\ interrupt_socket = NoObject
    /\ interrupt_socket' = objects + 1
    /\ objects' = objects + 1
    /\ addrs' = [addrs EXCEPT !.interrupt_addr = interrupt_addr]
    /\ UNCHANGED <<timeout_sec, socket, heartbeat_client, closed, heartbeat_error, now,
                   pc_call, waitLocals, interrupted, inbox, awaiting, missed, result,
                   wait, counts>>

\* enable_heartbeat, lines 187-191
EnableHeartbeat(heartbeat_addr, heartbeat_interval_sec) ==
    /\ UNCHANGED notRPC
    /\ pc_call = "idle"
    /\ counts.sent = 0
    /\ heartbeat_client = NoObject
    /\ heartbeat_client' = objects + 1
    /\ objects' = objects + 1
    /\ missed' = 0
    /\ addrs' = [addrs EXCEPT !.heartbeat_addr = heartbeat_addr,
                              !.heartbeat_interval_sec = heartbeat_interval_sec]
    /\ UNCHANGED <<timeout_sec, socket, interrupt_socket, closed, heartbeat_error, now,
                   pc_call, waitLocals, interrupted, inbox, awaiting, result, wait, counts>>

\* (mutant) the interrupt socket is recreated whether or not it was enabled
ReconnectsInterrupt_Always == TRUE

\* line 196
ReconnectsInterrupt == interrupt_socket # NoObject

\* (mutant) the heartbeat client is left as it is
ReconnectsHeartbeat_Never == FALSE

\* line 199
ReconnectsHeartbeat == heartbeat_client # NoObject

\* reconnect, lines 194-202. None.close() and a read of an attribute that was
\* never assigned raise AttributeError, which leaves reconnect where it is.
Reconnect ==
    /\ UNCHANGED notRPC
    /\ pc_call = "idle"
    /\ counts.reconnects < MaxReconnects
    /\ socket' = objects + 1
    /\ inbox' = NoReply
    /\ awaiting' = FALSE
    /\ IF ReconnectsInterrupt /\ interrupt_socket = NoObject
       THEN \* line 197 raises
            /\ counts' = [counts EXCEPT !.reconnects = @ + 1, !.failed_reconnects = @ + 1,
                                        !.after = AfterReconnect(result),
                                        !.timed_out = {}]
            /\ objects' = objects + 1
            /\ closed' = closed \cup {socket}
            /\ UNCHANGED <<interrupt_socket, heartbeat_client, heartbeat_error, missed>>
       ELSE LET redo_int == ReconnectsInterrupt
                redo_hb == ReconnectsHeartbeat
                n_int == IF redo_int THEN 1 ELSE 0
                n_hb == IF redo_hb THEN 1 ELSE 0
            IN
            /\ counts' = [counts EXCEPT !.reconnects = @ + 1,
                                        !.after = AfterReconnect(result),
                                        !.timed_out = {}]
            /\ interrupt_socket' = IF redo_int THEN objects + 2 ELSE interrupt_socket
            /\ heartbeat_client' = IF redo_hb THEN objects + 1 + n_int + 1
                                   ELSE heartbeat_client
            /\ objects' = objects + 1 + n_int + n_hb
            /\ closed' = closed \cup {socket}
                            \cup (IF redo_int THEN {interrupt_socket} ELSE {})
                            \cup (IF redo_hb THEN {heartbeat_client} ELSE {})
            /\ heartbeat_error' = IF redo_hb THEN FALSE ELSE heartbeat_error
            /\ missed' = IF redo_hb THEN 0 ELSE missed
    /\ UNCHANGED <<config, now, pc_call, waitLocals, interrupted, result, wait>>

\* _set_heartbeat_error, line 205
SetHeartbeatError ==
    /\ heartbeat_error' = TRUE
    /\ wait' = IF pc_call # "idle" /\ ~heartbeat_error
               THEN [wait EXCEPT !.flag = TRUE, !.since = now]
               ELSE wait

\* (mutant) the clear callback leaves the flag as it is
ClearHeartbeatError_Keeps ==
    /\ heartbeat_error' = heartbeat_error
    /\ UNCHANGED wait

\* _clear_heartbeat_error, line 208
ClearHeartbeatError ==
    /\ heartbeat_error' = FALSE
    /\ UNCHANGED wait

\* The heartbeat client (heartbeat.py): a probe went unanswered. The error
\* callback runs when max_missed probes in a row have been missed.
HeartbeatMiss ==
    /\ UNCHANGED notRPC
    /\ heartbeat_client # NoObject
    /\ missed < max_missed
    /\ missed' = missed + 1
    /\ IF missed + 1 = max_missed
       THEN SetHeartbeatError
       ELSE UNCHANGED <<heartbeat_error, wait>>
    /\ UNCHANGED <<config, channels, now, pc_call, waitLocals, interrupted, inbox,
                   awaiting, result, counts>>

\* The heartbeat client: a probe was answered. The clear callback runs at the
\* first answer after the error callback.
HeartbeatOk ==
    /\ UNCHANGED notRPC
    /\ heartbeat_client # NoObject
    /\ missed > 0
    /\ missed' = 0
    /\ IF missed >= max_missed
       THEN ClearHeartbeatError
       ELSE UNCHANGED <<heartbeat_error, wait>>
    /\ UNCHANGED <<config, channels, now, pc_call, waitLocals, interrupted, inbox,
                   awaiting, result, counts>>

NextRPC ==
    \/ Call
    \/ Test
    \/ PollExpires
    \/ RecvReply
    \/ Tick
    \/ KeyboardInterrupt
    \/ \E reply_type \in ReplyTypes, payload \in Payloads : ServerReply(reply_type, payload)
    \/ \E interrupt_addr \in InterruptAddrs : EnableInterrupt(interrupt_addr)
    \/ \E heartbeat_addr \in HeartbeatAddrs, heartbeat_interval_sec \in HeartbeatIntervals :
           EnableHeartbeat(heartbeat_addr, heartbeat_interval_sec)
    \/ Reconnect
    \/ HeartbeatMiss
    \/ HeartbeatOk

SpecRPC == InitRPC /\ [][NextRPC]_vars

\* Calls on one socket, with replies that come after their call has timed out.
NextLate ==
    \/ Call
    \/ Test
    \/ PollExpires
    \/ RecvReply
    \/ Tick
    \/ \E reply_type \in ReplyTypes, payload \in Payloads : ServerReply(reply_type, payload)
    \/ \E request \in 1..MaxCalls, reply_type \in ReplyTypes, payload \in Payloads :
           LateReply(request, reply_type, payload)

SpecLate == InitRPC /\ [][NextLate]_vars

(***************************************************************************)
(* C7..C10: the call path of ZMQClient.                                    *)
(***************************************************************************)
TimeoutError == [kind |-> "RPCError", value |-> TimeoutMessage]
LivenessError == [kind |-> "RPCError", value |-> HeartbeatMessage]
Outcome(r) == [kind |-> r.kind, value |-> r.value]

Waiting == pc_call \in {"test", "poll"}
CallEnds == pc_call # "idle" /\ pc_call' = "idle"

\* C7, the states: a wait lasts no longer than timeout_sec plus one poll interval.
C7_WaitBounded ==
    Waiting => now - wait.start <= timeout_sec + PollTicks

\* C7, the steps: the timeout RPCError is raised no sooner than timeout_sec and
\* no later than timeout_sec plus one poll interval after the wait began; a wait
\* in which no reply arrived and the heartbeat flag stayed clear ends with it
\* (unless a second KeyboardInterrupt ends the call).
C7_TimeoutStep ==
    CallEnds =>
        /\ Outcome(result') = TimeoutError =>
               /\ now - wait.start >= timeout_sec
               /\ now - wait.start <= timeout_sec + PollTicks
        /\ (~wait.flag /\ ~wait.reply /\ result'.kind # "KeyboardInterrupt") =>
               Outcome(result') = TimeoutError

\* C7: with no reply and the heartbeat flag clear, a call raises the timeout
\* RPCError between timeout_sec and timeout_sec plus one 500 ms poll interval
\* after its wait began.
C7_TimeoutWithinPollInterval == []C7_WaitBounded /\ [][C7_TimeoutStep]_vars

\* A call timed out a full poll interval after its deadline.
C7_Witness ==
    /\ Outcome(result) = TimeoutError
    /\ result.elapsed = timeout_sec + PollTicks

\* C8 (as claimed): a call that ends while the heartbeat flag is true, no reply
\* having arrived, ends with the liveness RPCError.
C8_FlagGivesLivenessError ==
    [][(CallEnds /\ heartbeat_error /\ ~wait.reply /\ result'.kind # "KeyboardInterrupt")
           => Outcome(result') = LivenessError]_vars

\* C8 (amended), the states: a call does not wait longer than one poll interval
\* with the heartbeat flag true.
C8_FlagSeenWithinPoll ==
    (Waiting /\ heartbeat_error) => now - wait.since <= PollTicks

\* C8 (amended), the steps: no poll is begun with the flag true; a test that finds
\* the flag true ends the call, with the liveness RPCError if the deadline has
\* not passed and with the timeout RPCError if it has; the liveness RPCError is
\* raised only so.
C8_TestStep ==
    /\ (pc_call = "test" /\ pc_call' = "poll") => ~heartbeat_error
    /\ (pc_call = "test" /\ pc_call' # "test" /\ heartbeat_error) =>
           /\ pc_call' = "idle"
           /\ Outcome(result') = IF now > timeout_time THEN TimeoutError ELSE LivenessError
    /\ (CallEnds /\ Outcome(result') = LivenessError) =>
           (pc_call = "test" /\ heartbeat_error /\ now <= timeout_time)

C8_LivenessOrTimeoutWithinPoll == []C8_FlagSeenWithinPoll /\ [][C8_TestStep]_vars

\* A call that the flag, set while it was waiting, ended with the liveness error.
C8_Witness ==
    /\ Outcome(result) = LivenessError
    /\ result.elapsed > 0

\* C9: a call that reads a reply raises RPCError with the server's payload when
\* the reply is tagged 'error', and returns the payload (the decoded value, or
\* the buffer of a 'bindata' reply) otherwise.
C9_ReplyByTag ==
    [][(CallEnds /\ pc_call = "poll" /\ inbox # NoReply
            /\ result'.kind # "KeyboardInterrupt")
           => \E payload \in Payloads :
                  \/ /\ inbox = <<"error", JsonEncode(payload)>>
                     /\ Outcome(result') = [kind |-> "RPCError", value |-> <<"value", payload>>]
                  \/ /\ inbox = <<"value", JsonEncode(payload)>>
                     /\ Outcome(result') = [kind |-> "return", value |-> <<"value", payload>>]
                  \/ /\ inbox = <<"bindata", RawFrame(payload)>>
                     /\ Outcome(result') = [kind |-> "return", value |-> <<"buffer", payload>>]
       ]_vars

\* A call has raised RPCError with a payload of the server.
C9_Witness ==
    \E payload \in Payloads :
        Outcome(result) = [kind |-> "RPCError", value |-> <<"value", payload>>]

Fresh(obj) == obj > objects /\ obj \notin closed'

\* C10: reconnect() does not fail, keeps the addresses and intervals, closes the
\* request socket and makes a new one, and closes and recreates the interrupt
\* socket and the heartbeat client exactly when they had been enabled.
C10_Reconnect ==
    [][(counts'.reconnects = counts.reconnects + 1)
           => /\ counts'.failed_reconnects = counts.failed_reconnects
              /\ addrs' = addrs
              /\ timeout_sec' = timeout_sec
              /\ Fresh(socket') /\ socket \in closed'
              /\ IF interrupt_socket = NoObject
                 THEN interrupt_socket' = NoObject
                 ELSE /\ Fresh(interrupt_socket') /\ interrupt_socket \in closed'
                      /\ interrupt_socket' # socket'
              /\ IF heartbeat_client = NoObject
                 THEN heartbeat_client' = NoObject
                 ELSE /\ Fresh(heartbeat_client') /\ heartbeat_client \in closed'
                      /\ heartbeat_client' \notin {socket', interrupt_socket'}
       ]_vars

\* reconnect() was called after a call had timed out, on a client with a
\* heartbeat client and no interrupt socket.
C10_Witness ==
    /\ counts.reconnects > 0
    /\ Outcome(result) = TimeoutError
    /\ interrupt_socket = NoObject
    /\ heartbeat_client # NoObject
    /\ Cardinality(closed) = 2

\* The reply that the request socket holds, as __call__ hands it on.
ReplyOutcome ==
    [kind |-> IF inbox[1] = "error" THEN "RPCError" ELSE "return",
     value |-> ReadReply(inbox[1], inbox[2])]

Recovered == counts.after \in {"call_timeout", "call_liveness"}

\* C11, reconnect(): it leaves the heartbeat flag clear and no reply in the
\* request socket.
C11_ReconnectStep ==
    (counts'.reconnects = counts.reconnects + 1)
        => /\ ~heartbeat_error'
           /\ missed' = 0
           /\ inbox' = NoReply

\* C11, the next call: when the peer's reply arrives before the deadline test
\* and the heartbeat flag is not raised again, the call ends with that reply.
C11_CallStep ==
    (CallEnds /\ Recovered /\ wait.reply /\ ~wait.flag
         /\ result'.kind # "KeyboardInterrupt"
         /\ ~(pc_call = "test" /\ now > timeout_time))
        => /\ inbox # NoReply
           /\ Outcome(result') = ReplyOutcome

\* C11: after a call failed with the timeout or the liveness error and
\* reconnect() was called, the heartbeat flag is clear and the next call returns
\* (or raises) what the peer replies to it.
C11_CallAfterReconnect == [][C11_ReconnectStep /\ C11_CallStep]_vars

\* The first call after a liveness error and reconnect() has returned a reply.
C11_Witness ==
    /\ counts.after = "call_liveness"
    /\ pc_call = "idle"
    /\ result.kind = "return"

\* C12, the states: a call sends at most one interrupt message, and none
\* without an interrupt socket; an interrupted call has sent its one message.
C12_OneInterrupt ==
    /\ counts.interrupts <= 1
    /\ counts.interrupts = 1 => interrupt_socket # NoObject
    /\ (pc_call # "idle" /\ interrupted /\ interrupt_socket # NoObject)
           => counts.interrupts = 1

\* C12, the KeyboardInterrupt: the message is sent if there is an interrupt
\* socket, no socket is closed or made, the reply already received is kept and
\* the wait begins again with a deadline of timeout_sec from now.
C12_InterruptStep ==
    (pc_call = "poll" /\ ~interrupted /\ interrupted')
        => /\ counts'.interrupts =
                  counts.interrupts + (IF interrupt_socket # NoObject THEN 1 ELSE 0)
           /\ counts'.sent = counts.sent
           /\ counts'.reconnects = counts.reconnects
           /\ UNCHANGED <<socket, interrupt_socket, heartbeat_client, objects, closed, inbox>>
           /\ pc_call' = "test"
           /\ timeout_time' = now + timeout_sec

\* C12, the end of an interrupted call: the reply that arrived decides it,
\* unless the deadline, the heartbeat flag or a second KeyboardInterrupt ends it.
C12_EndStep ==
    (CallEnds /\ interrupted)
        => \/ result'.kind = "KeyboardInterrupt"
           \/ /\ pc_call = "poll" /\ inbox # NoReply
              /\ Outcome(result') = ReplyOutcome
           \/ /\ pc_call = "test" /\ now > timeout_time
              /\ now - wait.start >= timeout_sec
              /\ Outcome(result') = TimeoutError
           \/ /\ pc_call = "test" /\ now <= timeout_time /\ heartbeat_error
              /\ Outcome(result') = LivenessError

\* C12: a KeyboardInterrupt during the wait sends one interrupt message (none
\* without an interrupt channel), keeps the request socket and waits again under
\* the timeout and heartbeat rules; the reply that arrives decides the call.
C12_InterruptThenWait ==
    []C12_OneInterrupt /\ [][C12_InterruptStep /\ C12_EndStep]_vars

\* An interrupted call has sent its interrupt message and returned a reply.
C12_Witness ==
    /\ pc_call = "idle"
    /\ counts.interrupts = 1
    /\ result.kind = "return"

\* C13, entering a call: the request is sent once.
C13_SendStep ==
    (pc_call = "idle" /\ pc_call' # "idle") => counts'.sent = counts.sent + 1

\* C13, within a call and at its end, however it ends: no request is sent, no
\* reconnect() is made and no socket or heartbeat client is closed or made.
C13_NoRetryStep ==
    (pc_call # "idle")
        => /\ counts'.sent = counts.sent
           /\ counts'.reconnects = counts.reconnects
           /\ UNCHANGED <<socket, interrupt_socket, heartbeat_client, objects, closed>>

\* C13: each invocation sends its request exactly once; after a timeout, a
\* liveness error or a remote error the client neither resends nor reconnects.
C13_SentOnce == [][C13_SendStep /\ C13_NoRetryStep]_vars

\* The first call has timed out; one request was sent and nothing reconnected.
C13_Witness ==
    /\ pc_call = "idle"
    /\ Outcome(result) = TimeoutError
    /\ counts.sent = 1
    /\ counts.reconnects = 0

Reconnected == counts'.reconnects = counts.reconnects + 1
ProbeAnswered == missed > 0 /\ missed' = 0 /\ ~Reconnected

\* C14, the states: the flag is true only while the last max_missed probes, at
\* least, have all been missed.
C14_FlagMeansMissed ==
    heartbeat_error => (heartbeat_client # NoObject /\ missed >= max_missed)

\* C14, the steps: the flag rises at the max_missed-th consecutive miss, falls
\* only at an answered probe or at reconnect(), and is false after either.
C14_FlagStep ==
    /\ (~heartbeat_error /\ heartbeat_error')
           => (missed = max_missed - 1 /\ missed' = max_missed)
    /\ (heartbeat_error /\ ~heartbeat_error') => (ProbeAnswered \/ Reconnected)
    /\ ProbeAnswered => ~heartbeat_error'
    /\ Reconnected => ~heartbeat_error'

\* C14: the heartbeat flag becomes true only after max_missed consecutive
\* missed probes, stays true until a probe is answered, is false from then on,
\* and is false after reconnect().
C14_HeartbeatFlag == []C14_FlagMeansMissed /\ [][C14_FlagStep]_vars

\* The flag has been raised by the third missed probe in a row.
C14_Witness ==
    /\ heartbeat_error
    /\ missed = max_missed

\* C37: the reply a call reads answers the call's own request: the socket
\* holds no reply to another request, also when the reply to a request whose
\* call timed out arrives while a later call on the same socket waits.
C37_OwnReplyOnly ==
    /\ [](inbox # NoReply => counts.answered = counts.sent)
    /\ [][(CallEnds /\ pc_call = "poll" /\ inbox # NoReply)
              => counts.answered = counts.sent]_vars

\* The reply to a request whose call had timed out arrived while the next call
\* was waiting, and that call has returned the reply to its own request.
C37_Witness ==
    /\ pc_call = "idle"
    /\ result.kind = "return"
    /\ counts.answered = counts.sent
    /\ \E l \in counts.late : l.request < counts.sent /\ l.waiting

(***************************************************************************)
(* The namespace built by RPCClient.proxy_namespace                        *)
(* (src/scope/simple_rpc/rpc_client.py).                                   *)
(***************************************************************************)
\* Longest catalog the server describes, and number of attribute operations
\* made on the namespace once it is built.
MaxCatalog == 2
MaxOps == 2

\* Qualified names the server may describe, attribute names and values the
\* user of the namespace may use.
QualNames == {"a.b.get_x", "a.b.set_x", "a.b.x", "a.f", "a"}
AttrNames == {"x", "y", "b", "f"}
AttrValues == {"5"}

RECURSIVE Catalogs(_)
Catalogs(n) ==
    IF n = 0 THEN {<<>>}
    ELSE Catalogs(n - 1) \cup
         {Append(c, q) : c \in {c \in Catalogs(n - 1) : Len(c) = n - 1}, q \in QualNames}

\* str.split('.')
RECURSIVE Split(_)
Split(s) ==
    IF \E i \in 1..Len(s) : SubSeq(s, i, i) = "."
    THEN LET i == CHOOSE i \in 1..Len(s) :
                      /\ SubSeq(s, i, i) = "."
                      /\ \A j \in 1..(i - 1) : SubSeq(s, j, j) # "."
         IN <<SubSeq(s, 1, i - 1)>> \o Split(SubSeq(s, i + 1, Len(s)))
    ELSE <<s>>

\* str.startswith(prefix)
StartsWith(s, prefix) == Len(s) >= Len(prefix) /\ SubSeq(s, 1, Len(prefix)) = prefix

\* Objects: a namespace instance (named by the key of client_namespaces it was
\* made for), a proxy function (named by the position of its descriptor in the
\* catalog) and plain values.
NamespaceObj(parents) == <<"namespace", parents>>
FunctionObj(fn) == <<"function", fn>>
ValueObj(v) == <<"value", v>>
RemoteResult == <<"value", "remote">>
root == NamespaceObj(<<>>)
NoFn == 0

\* A remote call: rpc_client(rpc_function, *args).
RemoteCall(command, args) == [command |-> command, args |-> args]

\* for qualname, doc, argspec in self('__DESCRIBE__'): *parents, name = qualname.split('.')
Desc(cat, i) ==
    LET parts == Split(cat[i])
    IN [name |-> parts[Len(parts)], parents |-> SubSeq(parts, 1, Len(parts) - 1), fn |-> i]

\* Looking up a key of the defaultdict(list) adds it.
Touch(sn, key) ==
    IF key \in DOMAIN sn.fns THEN sn
    ELSE [keys |-> Append(sn.keys, key), fns |-> Put(sn.fns, key, <<>>)]

RECURSIVE TouchPrefixes(_, _, _)
TouchPrefixes(sn, parents, i) ==
    IF i >= Len(parents) THEN sn
    ELSE TouchPrefixes(Touch(sn, SubSeq(parents, 1, i)), parents, i + 1)

\* server_namespaces after the first n descriptors: the keys in the order of
\* their insertion and the descriptors grouped under each.
RECURSIVE ServerNamespaces(_, _)
ServerNamespaces(cat, n) ==
    IF n = 0 THEN [keys |-> <<>>, fns |-> EmptyTable]
    ELSE LET d == Desc(cat, n)
             sn == Touch(ServerNamespaces(cat, n - 1), d.parents)
         IN TouchPrefixes([sn EXCEPT !.fns[d.parents] = Append(@, d)], d.parents, 0)

IsGetter(name) == StartsWith(name, "get_")
IsSetter(name) == ~IsGetter(name) /\ StartsWith(name, "set_")
\* name[4:]
Stem(name) == SubSeq(name, 5, Len(name))

\* The class attributes set by setattr(NewNamespace, name, client_func) for the
\* first n descriptors of a namespace.
RECURSIVE ClassFunctions(_, _)
ClassFunctions(ds, n) ==
    IF n = 0 THEN EmptyTable
    ELSE LET d == ds[n]
             name == IF IsGetter(d.name) \/ IsSetter(d.name) THEN "_" \o d.name ELSE d.name
         IN Put(ClassFunctions(ds, n - 1), name, FunctionObj(d.fn))

\* accessors = collections.defaultdict(RPCClient._accessor_pair) after the
\* first n descriptors.
RECURSIVE Accessors(_, _)
Accessors(ds, n) ==
    IF n = 0 THEN [keys |-> <<>>, pairs |-> EmptyTable]
    ELSE LET acc == Accessors(ds, n - 1)
             d == ds[n]
             stem == Stem(d.name)
             old == IF stem \in DOMAIN acc.pairs THEN acc.pairs[stem]
                    ELSE [getter |-> NoFn, setter |-> NoFn]
             keys == IF stem \in DOMAIN acc.pairs THEN acc.keys ELSE Append(acc.keys, stem)
         IN IF IsGetter(d.name)
            THEN [keys |-> keys, pairs |-> Put(acc.pairs, stem, [old EXCEPT !.getter = d.fn])]
            ELSE IF IsSetter(d.name)
            THEN [keys |-> keys, pairs |-> Put(acc.pairs, stem, [old EXCEPT !.setter = d.fn])]
            ELSE acc

\* _accessor_pair.get_property()
GetProperty(pair) == <<"property", pair.getter, pair.setter>>

\* setattr(NewNamespace, name, accessor_pair.get_property()) for the first n accessors.
RECURSIVE WithProperties(_, _, _)
WithProperties(members, acc, n) ==
    IF n = 0 THEN members
    ELSE Put(WithProperties(members, acc, n - 1), acc.keys[n], GetProperty(acc.pairs[acc.keys[n]]))

\* The class made for one namespace.
NewNamespace(ds) ==
    LET acc == Accessors(ds, Len(ds))
    IN WithProperties(ClassFunctions(ds, Len(ds)), acc, Len(acc.keys))

\* What an attribute operation gives: the exception it raised ("" for none),
\* the value it produced, the instance dictionaries after it and the remote
\* calls it made.
Gives(raised, value, dts, made) ==
    [raised |-> raised, value |-> value, dicts |-> dts, calls |-> made]

Members(cls, obj) == IF obj[1] = "namespace" THEN cls[obj[2]] ELSE EmptyTable
OwnDict(dts, obj) == IF obj \in DOMAIN dts THEN dts[obj] ELSE EmptyTable
IsProperty(cls, obj, name) ==
    name \in DOMAIN Members(cls, obj) /\ Members(cls, obj)[name][1] = "property"

\* getattr(obj, name): a property of the class calls its getter, then come the
\* instance's own attributes, then the functions of the class.
GetAttr(cls, dts, cat, obj, name) ==
    IF IsProperty(cls, obj, name)
    THEN LET getter == Members(cls, obj)[name][2]
         IN IF getter = NoFn
            THEN Gives("AttributeError", None, dts, <<>>)
            ELSE Gives("", RemoteResult, dts, <<RemoteCall(cat[getter], <<>>)>>)
    ELSE IF name \in DOMAIN OwnDict(dts, obj)
    THEN Gives("", OwnDict(dts, obj)[name], dts, <<>>)
    ELSE IF name \in DOMAIN Members(cls, obj)
    THEN Gives("", Members(cls, obj)[name], dts, <<>>)
    ELSE Gives("AttributeError", None, dts, <<>>)

\* object.__setattr__(obj, name, value): a property of the class calls its
\* setter, which sends the value to the server (only a plain value can be
\* encoded); otherwise the value is stored on the instance. Only a namespace
\* instance takes attributes: a proxy function read from a node is a bound
\* method, on which setattr raises AttributeError.
StoreAttr(cls, dts, cat, obj, name, value) ==
    IF IsProperty(cls, obj, name)
    THEN LET setter == Members(cls, obj)[name][3]
         IN IF setter = NoFn THEN Gives("AttributeError", None, dts, <<>>)
            ELSE IF value[1] # "value" THEN Gives("TypeError", None, dts, <<>>)
            ELSE Gives("", None, dts, <<RemoteCall(cat[setter], <<value>>)>>)
    ELSE IF obj[1] # "namespace" THEN Gives("AttributeError", None, dts, <<>>)
    ELSE Gives("", None, Put(dts, obj, Put(OwnDict(dts, obj), name, value)), <<>>)

\* ClientNamespace.__setattr__(self, name, value)
ClientSetAttr(cls, dts, lck, cat, obj, name, value) ==
    IF obj \in lck
    THEN LET has == GetAttr(cls, dts, cat, obj, name)
         IN IF has.raised # "" THEN Gives("RPCError", None, dts, has.calls)
            ELSE IF ~IsProperty(cls, obj, name) THEN Gives("RPCError", None, dts, has.calls)
            ELSE LET s == StoreAttr(cls, dts, cat, obj, name, value)
                 IN Gives(s.raised, s.value, s.dicts, has.calls \o s.calls)
    ELSE StoreAttr(cls, dts, cat, obj, name, value)

\* setattr(obj, name, value)
SetAttr(cls, dts, lck, cat, obj, name, value) ==
    IF obj[1] = "namespace" THEN ClientSetAttr(cls, dts, lck, cat, obj, name, value)
    ELSE StoreAttr(cls, dts, cat, obj, name, value)

\* The walk of one dotted path from the root, from its i-th element on; b holds
\* the instance dictionaries, the keys left in client_namespaces, the remote
\* calls made and the exception raised so far.
RECURSIVE Walk(_, _, _, _, _, _)
Walk(cls, cat, b, parents, i, namespace) ==
    IF b.raised # "" \/ i > Len(parents) THEN b
    ELSE LET element == parents[i]
             g == GetAttr(cls, b.dicts, cat, namespace, element)
             key == SubSeq(parents, 1, i)
             new_namespace == NamespaceObj(key)
             s == SetAttr(cls, b.dicts, {}, cat, namespace, element, new_namespace)
         IN IF g.raised = ""
            THEN Walk(cls, cat, [b EXCEPT !.calls = @ \o g.calls], parents, i + 1, g.value)
            ELSE IF key \notin b.cn
            THEN [b EXCEPT !.raised = "KeyError"]
            ELSE Walk(cls, cat,
                      [dicts |-> s.dicts, cn |-> b.cn \ {key},
                       calls |-> b.calls \o s.calls, raised |-> s.raised],
                      parents, i + 1, new_namespace)

\* for parents in list(client_namespaces.keys()), from the k-th key on.
RECURSIVE Assemble(_, _, _, _, _)
Assemble(cls, cat, b, keys, k) ==
    IF b.raised # "" \/ k > Len(keys) THEN b
    ELSE Assemble(cls, cat,
                  IF keys[k] \in b.cn THEN Walk(cls, cat, b, keys[k], 1, root) ELSE b,
                  keys, k + 1)

\* The classes proxy_namespace makes for a catalog, and the outcome of the whole
\* construction.
ClassesOf(cat) ==
    LET sn == ServerNamespaces(cat, Len(cat))
    IN [key \in DOMAIN sn.fns |-> NewNamespace(sn.fns[key])]

FunctionsProxied(cat) == <<"set", {cat[i] : i \in 1..Len(cat)}>>

Built(cat) ==
    LET sn == ServerNamespaces(cat, Len(cat))
        cls == ClassesOf(cat)
        b0 == [dicts |-> [obj \in {NamespaceObj(key) : key \in DOMAIN sn.fns} |-> EmptyTable],
               cn |-> DOMAIN sn.fns, calls |-> <<>>, raised |-> ""]
        b == Assemble(cls, cat, b0, sn.keys, 1)
        s == SetAttr(cls, b.dicts, {}, cat, root, "_functions_proxied", FunctionsProxied(cat))
    IN IF <<>> \notin DOMAIN sn.fns THEN [b0 EXCEPT !.raised = "KeyError"]
       ELSE IF b.raised # "" THEN b
       ELSE [dicts |-> s.dicts, cn |-> b.cn, calls |-> b.calls \o s.calls, raised |-> s.raised]

\* The object that the attribute path leads to from obj without a remote call,
\* None if there is none.
RECURSIVE Resolve(_, _, _, _, _, _)
Resolve(cls, dts, cat, obj, path, i) ==
    IF i > Len(path) THEN obj
    ELSE LET g == GetAttr(cls, dts, cat, obj, path[i])
         IN IF g.raised # "" \/ g.calls # <<>> THEN None
            ELSE Resolve(cls, dts, cat, g.value, path, i + 1)

\* The namespace nodes that attribute access reaches from the root.
Nodes(cls, dts, cat) ==
    {obj \in {Resolve(cls, dts, cat, root, key, 1) : key \in DOMAIN cls} :
         obj[1] = "namespace"}

\* ClientNamespace._lock_attrs(self): the assignment to __attrs_locked goes
\* through __setattr__, which raises on an instance that is already locked (the
\* flag is not a property); then the namespaces among the instance's own
\* attributes are locked in turn.
RECURSIVE LockAttrsOf(_, _, _, _)
LockAttrsOf(dts, lck, todo, n) ==
    IF n = 0 \/ todo = {} THEN lck
    ELSE LockAttrsOf(dts, lck \cup todo,
                     {v \in UNION {{dts[obj][name] : name \in DOMAIN dts[obj]} : obj \in todo} :
                          v[1] = "namespace"} \ (lck \cup todo),
                     n - 1)

NoOp == [op |-> "none", obj |-> root, name |-> "", raised |-> ""]

(***************************************************************************)
(* RPCClient.proxy_namespace, and the use of the namespace it returns.     *)
(***************************************************************************)
InitNS ==
    /\ pc_ns = "unbuilt"
    /\ catalog = <<>>
    /\ classes = EmptyTable
    /\ dicts = EmptyTable
    /\ attrs_locked = {}
    /\ ns_requests = <<>>
    /\ ns_last = NoOp
    /\ ns_ops = 0
    \* the message manager and the call path are not part of this specification
    /\ manager = "Echo"
    /\ pending_grouped_responses = EmptyTable
    /\ pending_standalone_responses = EmptyTable
    /\ running = FALSE /\ pc_run = "start" /\ response = None /\ response_key = None
    /\ handled = FALSE /\ remaining_callbacks = <<>> /\ pc_send = "idle"
    /\ regs = <<>> /\ recvs = <<>> /\ calls = <<>> /\ unexpected = <<>> /\ sent = <<>>
    /\ stop_requested = FALSE
    /\ timeout_sec = 0 /\ heartbeat_error = FALSE /\ socket = 0 /\ interrupt_socket = 0
    /\ heartbeat_client = 0 /\ addrs = <<>> /\ objects = 0 /\ closed = {} /\ now = 0
    /\ pc_call = "idle" /\ timeout_time = 0 /\ poll_until = 0 /\ interrupted = FALSE
    /\ inbox = <<>> /\ awaiting = FALSE /\ missed = 0 /\ result = <<>> /\ wait = <<>>
    /\ counts = <<>>
    /\ response_terminator = <<>> /\ port_buffer = <<>> /\ read_size = 0
    /\ response_bytes = <<>> /\ pc_recv = "unused" /\ device = <<>> /\ returned = <<>>
    /\ chunks = <<>>
    /\ props = <<>> /\ state_stack = <<>> /\ open = <<>> /\ ss_last = <<>>
    /\ jobs = <<>> /\ job_file = "" /\ asleep = FALSE /\ daemon_running = FALSE
    /\ pc_d = "unused" /\ job = <<>> /\ sighup_pending = FALSE /\ sigint_pending = FALSE
    /\ pc_client = "idle" /\ pc_stop = "idle" /\ died = "" /\ runs = <<>> /\ client_ops = 0
    /\ image_received = FALSE /\ frame_no = NoFrameNo /\ pc_get = "unused"
    /\ get_image = [image |-> NoFrameNo, set_by |-> NoFrameNo]
    /\ pc_update = [at |-> "idle", frame_no |-> NoFrameNo]
    /\ live = [published |-> 0, callbacks |-> 0, set_by |-> NoFrameNo, returns |-> 0,
               since_return |-> 0, since_clear |-> 0]
    /\ got = [image |-> NoFrameNo, frame_no |-> NoFrameNo, set_by |-> NoFrameNo, raised |-> ""]

\* proxy_namespace(), the server describing the catalog cat.
ProxyNamespace(cat) ==
    /\ pc_ns = "unbuilt"
    /\ LET b == Built(cat)
       IN /\ pc_ns' = IF b.raised = "" THEN "built" ELSE "failed"
          /\ classes' = IF b.raised = "" THEN ClassesOf(cat) ELSE EmptyTable
          /\ dicts' = IF b.raised = "" THEN b.dicts ELSE EmptyTable
          /\ ns_requests' = <<RemoteCall("__DESCRIBE__", <<>>)>> \o b.calls
          /\ ns_last' = [op |-> "proxy_namespace", obj |-> root, name |-> "",
                         raised |-> b.raised]
    /\ catalog' = cat
    /\ UNCHANGED <<attrs_locked, ns_ops>>
    /\ UNCHANGED notNS

\* obj.name = value, on a node of the namespace that proxy_namespace returned.
Assign(obj, name, value) ==
    /\ pc_ns = "built"
    /\ ns_ops < MaxOps
    /\ LET s == ClientSetAttr(classes, dicts, attrs_locked, catalog, obj, name, value)
       IN /\ dicts' = s.dicts
          /\ ns_requests' = ns_requests \o s.calls
          /\ ns_last' = [op |-> "setattr", obj |-> obj, name |-> name, raised |-> s.raised]
    /\ ns_ops' = ns_ops + 1
    /\ UNCHANGED <<pc_ns, catalog, classes, attrs_locked>>
    /\ UNCHANGED notNS

\* Reading obj.name.
Read(obj, name) ==
    /\ pc_ns = "built"
    /\ ns_ops < MaxOps
    /\ LET g == GetAttr(classes, dicts, catalog, obj, name)
       IN /\ ns_requests' = ns_requests \o g.calls
          /\ ns_last' = [op |-> "getattr", obj |-> obj, name |-> name, raised |-> g.raised]
    /\ ns_ops' = ns_ops + 1
    /\ UNCHANGED <<pc_ns, catalog, classes, dicts, attrs_locked>>
    /\ UNCHANGED notNS

\* obj.name(): the attribute is read and the value it gives is called; a proxy
\* function makes the remote call of its qualified name (the functions of the
\* model take no arguments), anything else is not callable.
CallAttr(obj, name) ==
    /\ pc_ns = "built"
    /\ ns_ops < MaxOps
    /\ LET g == GetAttr(classes, dicts, catalog, obj, name)
           called == g.raised = "" /\ g.value[1] = "function"
       IN /\ ns_requests' = IF called
                            THEN ns_requests \o g.calls
                                     \o <<RemoteCall(catalog[g.value[2]], <<>>)>>
                            ELSE ns_requests \o g.calls
          /\ ns_last' = [op |-> "call", obj |-> obj, name |-> name,
                         raised |-> IF g.raised # "" THEN g.raised
                                    ELSE IF called THEN "" ELSE "TypeError"]
    /\ ns_ops' = ns_ops + 1
    /\ UNCHANGED <<pc_ns, catalog, classes, dicts, attrs_locked>>
    /\ UNCHANGED notNS

\* root._lock_attrs()
LockAttrs ==
    /\ pc_ns = "built"
    /\ ns_ops < MaxOps
    /\ IF root \in attrs_locked
       THEN /\ ns_last' = [op |-> "_lock_attrs", obj |-> root, name |-> "",
                           raised |-> "RPCError"]
            /\ UNCHANGED attrs_locked
       ELSE /\ ns_last' = [op |-> "_lock_attrs", obj |-> root, name |-> "", raised |-> ""]
            /\ attrs_locked' = LockAttrsOf(dicts, attrs_locked, {root},
                                           Cardinality(DOMAIN dicts))
    /\ ns_ops' = ns_ops + 1
    /\ UNCHANGED <<pc_ns, catalog, classes, dicts, ns_requests>>
    /\ UNCHANGED notNS

NextNS ==
    \/ \E cat \in Catalogs(MaxCatalog) : ProxyNamespace(cat)
    \/ \E obj \in Nodes(classes, dicts, catalog), name \in AttrNames, value \in AttrValues :
           Assign(obj, name, ValueObj(value))
    \/ \E obj \in Nodes(classes, dicts, catalog), name \in AttrNames : Read(obj, name)
    \/ \E obj \in Nodes(classes, dicts, catalog), name \in AttrNames : CallAttr(obj, name)
    \/ LockAttrs

SpecNS == InitNS /\ [][NextNS]_vars

\* C6 (as claimed): once proxy_namespace() has returned, an assignment to an
\* attribute of a namespace node that is not a property of the node raises
\* RPCError, leaves every node as it was and sends no request; an assignment to
\* a property that has a setter raises nothing.
C6_WriteProtected ==
    [][(ns_ops' = ns_ops + 1 /\ ns_last'.op = "setattr")
           => IF IsProperty(classes, ns_last'.obj, ns_last'.name)
              THEN Members(classes, ns_last'.obj)[ns_last'.name][3] # NoFn
                       => ns_last'.raised = ""
              ELSE /\ ns_last'.raised = "RPCError"
                   /\ dicts' = dicts
                   /\ ns_requests' = ns_requests
       ]_vars

\* The descriptors of the catalog that lie in the namespace of node obj.
DescriptorsOf(cat, obj) == {i \in 1..Len(cat) : Desc(cat, i).parents = obj[2]}

\* An attribute operation on the built namespace, and what it was; the first
\* one finds the namespace as proxy_namespace returned it.
NsOp(op) == ns_ops' = ns_ops + 1 /\ ns_last'.op = op
FirstOp(op) == ns_ops = 0 /\ NsOp(op)
OpObj == ns_last'.obj
OpName == ns_last'.name

\* C22 (as claimed): descriptors get_X and set_X of a namespace make one member
\* X of the node: reading X makes the remote call of get_X's qualified name,
\* assigning v to X makes the remote call of set_X's qualified name with v; a
\* descriptor not named get_* or set_* is callable under its own name and makes
\* the remote call of its qualified name. Stated of the namespace as returned.
C22_MembersFromDescriptors ==
    [][/\ \A i, j \in DescriptorsOf(catalog, OpObj) :
              (/\ Desc(catalog, i).name = "get_" \o OpName
               /\ Desc(catalog, j).name = "set_" \o OpName)
                  => /\ FirstOp("getattr")
                         => /\ ns_last'.raised = ""
                            /\ ns_requests' = Append(ns_requests,
                                                     RemoteCall(catalog[i], <<>>))
                     /\ FirstOp("setattr")
                         => /\ ns_last'.raised = ""
                            /\ \E v \in AttrValues :
                                   ns_requests' = Append(ns_requests,
                                       RemoteCall(catalog[j], <<ValueObj(v)>>))
       /\ \A i \in DescriptorsOf(catalog, OpObj) :
              (/\ Desc(catalog, i).name = OpName
               /\ ~IsGetter(OpName) /\ ~IsSetter(OpName)
               /\ FirstOp("call"))
                  => /\ ns_last'.raised = ""
                     /\ ns_requests' = Append(ns_requests, RemoteCall(catalog[i], <<>>))
      ]_vars

HasDuplicate(cat) == \E i, j \in 1..Len(cat) : i # j /\ cat[i] = cat[j]

\* C23 (as claimed): proxy_namespace() rejects a catalog that holds a qualified
\* name twice: it raises, has built no namespace and has made no request after
\* __DESCRIBE__.
C23_DuplicateRejected ==
    (pc_ns # "unbuilt" /\ HasDuplicate(catalog))
        => /\ pc_ns = "failed"
           /\ classes = EmptyTable /\ dicts = EmptyTable
           /\ ns_requests = <<RemoteCall("__DESCRIBE__", <<>>)>>

\* The orderings of a catalog.
Orderings(cat) ==
    {[i \in 1..Len(cat) |-> cat[p[i]]] :
         p \in {q \in [1..Len(cat) -> 1..Len(cat)] :
                    \A i, j \in 1..Len(cat) : q[i] = q[j] => i = j}}

\* A member of a class with its functions named by their qualified names
\* instead of their positions in the catalog.
QualName(cat, fn) == IF fn = NoFn THEN "" ELSE cat[fn]
NamedMember(cat, member) ==
    IF member[1] = "property"
    THEN <<"property", QualName(cat, member[2]), QualName(cat, member[3])>>
    ELSE <<"function", QualName(cat, member[2])>>

\* What proxy_namespace makes of a catalog: whether it raises, the members of
\* each node, the attributes that link the nodes, the requests it makes.
Tree(cat) ==
    LET b == Built(cat)
        cls == ClassesOf(cat)
    IN [raised |-> b.raised,
        members |-> [key \in DOMAIN cls |->
                        [name \in DOMAIN cls[key] |-> NamedMember(cat, cls[key][name])]],
        links |-> b.dicts,
        calls |-> b.calls]

\* The attributes, of any node, that hold the namespace node obj.
ParentLinks(dts, obj) ==
    {<<parent, name>> \in UNION {{<<o, n>> : n \in DOMAIN dts[o]} : o \in DOMAIN dts} :
         dts[parent][name] = obj}

\* C24, first half: every ordering of the catalog gives the same tree.
C24_OrderIndependent ==
    (pc_ns # "unbuilt" /\ ns_ops = 0)
        => \A cat \in Orderings(catalog) : Tree(cat) = Tree(catalog)

\* C24, second half: in the tree that proxy_namespace returns, every namespace
\* node but the root is the attribute of exactly one node and is reached from
\* the root by its dotted path.
C24_SingleRootedTree ==
    (pc_ns = "built" /\ ns_ops = 0)
        => \A key \in DOMAIN classes \ {<<>>} :
               /\ Cardinality(ParentLinks(dicts, NamespaceObj(key))) = 1
               /\ Resolve(classes, dicts, catalog, root, key, 1) = NamespaceObj(key)

\* C24 (as claimed): the tree is the same for every ordering of the catalog,
\* and every namespace node has exactly one parent and is reachable from the
\* root.
C24_SameTreeAnyOrder == C24_OrderIndependent /\ C24_SingleRootedTree

\* C25 (as claimed): for every descriptor of the catalog, each prefix of its
\* dotted path is a namespace node that attribute access reaches from the root
\* of the namespace proxy_namespace returned.
C25_PrefixesReachable ==
    (pc_ns = "built" /\ ns_ops = 0)
        => \A i \in 1..Len(catalog) :
               LET parents == Desc(catalog, i).parents
               IN \A k \in 1..Len(parents) :
                      Resolve(classes, dicts, catalog, root, SubSeq(parents, 1, k), 1)
                          = NamespaceObj(SubSeq(parents, 1, k))

(***************************************************************************)
(* SerialMessageManager._receive_message (message_manager.py, lines        *)
(* 137-143): the framing of the serial byte stream into messages.          *)
(***************************************************************************)
\* bytes the device writes to the port
MaxBytes == 3
\* reads of one call that time out without a byte
MaxEmptyReads == 1

\* The bytes of the model: 'a', '\r', '\n' and a byte that is not ASCII.
Bytes == {97, 13, 10, 200}
\* LeicaMessageManager passes b'\r'; a terminator of two bytes is b'\r\n'.
Terminators == {<<13>>, <<13, 10>>}

\* str(b, encoding='ASCII') raises UnicodeDecodeError on a byte above 127
DecodeRaises(b) == \E i \in 1..Len(b) : b[i] > 127
Chr(byte) == CASE byte = 97 -> "a" [] byte = 13 -> "CR" [] byte = 10 -> "LF"
Decode(b) == [i \in 1..Len(b) |-> Chr(b[i])]

Max(a, b) == IF a > b THEN a ELSE b

\* response[-tl:] == self.response_terminator, with len(response) >= tl
EndsWithTerminator(resp, term) ==
    /\ Len(resp) >= Len(term)
    /\ SubSeq(resp, Len(resp) - Len(term) + 1, Len(resp)) = term

\* response[:-tl]
BeforeTerminator(resp, term) == SubSeq(resp, 1, Len(resp) - Len(term))

\* (mutant) response = chunk
Accumulate_Replacing(resp, chunk) == chunk

\* response += chunk
Accumulate(resp, chunk) == resp \o chunk

EmptyReads(cs) == Cardinality({i \in 1..Len(cs) : cs[i] = <<>>})

\* The other attributes of the manager, and the other parts.
notSerial == <<manager, tables, pc_run, runLocals, pc_send, history, rpcVars, nsVars,
               ssVars, jobVars, liveVars>>

\* The receiver thread is in its loop and calls _receive_message.
InitSerial ==
    /\ response_terminator \in Terminators
    /\ port_buffer = <<>>
    /\ read_size = 0
    /\ response_bytes = <<>>
    /\ pc_recv = "call"
    /\ device = <<>>
    /\ returned = <<>>
    /\ chunks = <<>>
    /\ running = TRUE
    /\ pc_run = "receive"
    \* the tables of the manager, the RPC client and the namespace are not part
    \* of this specification
    /\ manager = "Echo"
    /\ pending_grouped_responses = EmptyTable
    /\ pending_standalone_responses = EmptyTable
    /\ response = None /\ response_key = None
    /\ handled = FALSE /\ remaining_callbacks = <<>> /\ pc_send = "idle"
    /\ regs = <<>> /\ recvs = <<>> /\ calls = <<>> /\ unexpected = <<>> /\ sent = <<>>
    /\ stop_requested = FALSE
    /\ timeout_sec = 0 /\ heartbeat_error = FALSE /\ socket = 0 /\ interrupt_socket = 0
    /\ heartbeat_client = 0 /\ addrs = <<>> /\ objects = 0 /\ closed = {} /\ now = 0
    /\ pc_call = "idle" /\ timeout_time = 0 /\ poll_until = 0 /\ interrupted = FALSE
    /\ inbox = <<>> /\ awaiting = FALSE /\ missed = 0 /\ result = <<>> /\ wait = <<>>
    /\ counts = <<>>
    /\ pc_ns = "unbuilt" /\ catalog = <<>> /\ classes = EmptyTable /\ dicts = EmptyTable
    /\ attrs_locked = {} /\ ns_requests = <<>> /\ ns_last = <<>> /\ ns_ops = 0
    /\ props = <<>> /\ state_stack = <<>> /\ open = <<>> /\ ss_last = <<>>
    /\ jobs = <<>> /\ job_file = "" /\ asleep = FALSE /\ daemon_running = FALSE
    /\ pc_d = "unused" /\ job = <<>> /\ sighup_pending = FALSE /\ sigint_pending = FALSE
    /\ pc_client = "idle" /\ pc_stop = "idle" /\ died = "" /\ runs = <<>> /\ client_ops = 0
    /\ image_received = FALSE /\ frame_no = NoFrameNo /\ pc_get = "unused"
    /\ get_image = [image |-> NoFrameNo, set_by |-> NoFrameNo]
    /\ pc_update = [at |-> "idle", frame_no |-> NoFrameNo]
    /\ live = [published |-> 0, callbacks |-> 0, set_by |-> NoFrameNo, returns |-> 0,
               since_return |-> 0, since_clear |-> 0]
    /\ got = [image |-> NoFrameNo, frame_no |-> NoFrameNo, set_by |-> NoFrameNo, raised |-> ""]

\* The device writes one byte, which arrives in the port's input buffer.
DeviceWrite(byte) ==
    /\ UNCHANGED notSerial
    /\ Len(device) < MaxBytes
    /\ device' = Append(device, byte)
    /\ port_buffer' = Append(port_buffer, byte)
    /\ UNCHANGED <<response_terminator, read_size, response_bytes, pc_recv, returned,
                   chunks, running>>

\* run() calls _receive_message: tl = ...; response = bytearray()
CallReceiveMessage ==
    /\ UNCHANGED notSerial
    /\ pc_recv = "call"
    /\ response_bytes' = <<>>
    /\ chunks' = <<>>
    /\ pc_recv' = "test"
    /\ UNCHANGED <<response_terminator, port_buffer, read_size, device, returned, running>>

\* while self.running: ... read(max(1, self.serialport.inWaiting())): the test,
\* and the size the read is called with. When running is False the function
\* falls off its end and returns None.
WhileRunning ==
    /\ UNCHANGED notSerial
    /\ pc_recv = "test"
    /\ IF running
       THEN /\ read_size' = Max(1, Len(port_buffer))
            /\ pc_recv' = "read"
            /\ UNCHANGED returned
       ELSE /\ returned' = Append(returned, None)
            /\ pc_recv' = "stopped"
            /\ UNCHANGED read_size
    /\ UNCHANGED <<response_terminator, port_buffer, response_bytes, device, chunks,
                   running>>

\* serialport.read(size) returns: with size bytes once the buffer holds them, or
\* at its timeout with the bytes the buffer holds (none, as size was chosen from
\* the buffer). Then lines 141-143: accumulate, test the end of the buffer,
\* return the decoded message.
SerialRead ==
    /\ UNCHANGED notSerial
    /\ pc_recv = "read"
    /\ \/ Len(port_buffer) >= read_size
       \/ EmptyReads(chunks) < MaxEmptyReads
    /\ LET k == Min(read_size, Len(port_buffer))
           chunk == SubSeq(port_buffer, 1, k)
           resp == Accumulate(response_bytes, chunk)
       IN /\ port_buffer' = SubSeq(port_buffer, k + 1, Len(port_buffer))
          /\ chunks' = Append(chunks, chunk)
          /\ response_bytes' = resp
          /\ IF EndsWithTerminator(resp, response_terminator)
             THEN IF DecodeRaises(BeforeTerminator(resp, response_terminator))
                  THEN /\ pc_recv' = "raised"
                       /\ UNCHANGED returned
                  ELSE /\ pc_recv' = "call"
                       /\ returned' = Append(returned,
                              Decode(BeforeTerminator(resp, response_terminator)))
             ELSE /\ pc_recv' = "test"
                  /\ UNCHANGED returned
    /\ UNCHANGED <<response_terminator, read_size, device, running>>

\* Another thread sets running to False while the receiver thread is in its loop.
SerialStop ==
    /\ UNCHANGED notSerial
    /\ running
    /\ pc_recv \in {"call", "test", "read"}
    /\ running' = FALSE
    /\ UNCHANGED serialVars

NextSerial ==
    \/ \E byte \in Bytes : DeviceWrite(byte)
    \/ CallReceiveMessage
    \/ WhileRunning
    \/ SerialRead
    \/ SerialStop

SpecSerial == InitSerial /\ [][NextSerial]_vars

\* The messages of a byte stream: what lies between one terminator and the next,
\* the stream read from its beginning.
RECURSIVE Frames(_, _)
Frames(stream, term) ==
    LET ends == {i \in Len(term)..Len(stream) :
                     SubSeq(stream, i - Len(term) + 1, i) = term}
    IN IF ends = {}
       THEN <<>>
       ELSE LET e == CHOOSE x \in ends : \A y \in ends : x <= y
            IN <<SubSeq(stream, 1, e - Len(term))>>
                   \o Frames(SubSeq(stream, e + 1, Len(stream)), term)

\* C19 (as claimed): the messages _receive_message returns are the
\* terminator-delimited messages of the device's stream, one by one and in
\* stream order, none with a terminator inside, whatever bytes one read returns.
C19_EachMessageDelivered ==
    LET frames == Frames(device, response_terminator)
    IN \A i \in 1..Len(returned) :
           returned[i] # None
               => /\ i <= Len(frames)
                  /\ ~DecodeRaises(frames[i])
                  /\ returned[i] = Decode(frames[i])

RECURSIVE Flatten(_)
Flatten(cs) == IF cs = <<>> THEN <<>> ELSE Head(cs) \o Flatten(Tail(cs))

\* The bytes of the stream that the calls which returned a message took.
RECURSIVE Taken_Bytes(_, _, _)
Taken_Bytes(stream, rets, term) ==
    IF rets = <<>> THEN <<>>
    ELSE SubSeq(stream, 1, Len(Head(rets)) + Len(term))
             \o Taken_Bytes(SubSeq(stream, Len(Head(rets)) + Len(term) + 1, Len(stream)),
                            Tail(rets), term)

Last(s) == s[Len(s)]

\* C20, the states: while a call accumulates, its buffer is what its reads
\* returned, in order, and the bytes the earlier calls took, the buffer and the
\* bytes still in the port are the device's stream: no byte is dropped or
\* duplicated. When the stream holds one message, the call returns nothing
\* until the whole message is read and then that message's text.
C20_ExactState ==
    /\ pc_recv \in {"test", "read"}
           => /\ Flatten(chunks) = response_bytes
              /\ Taken_Bytes(device, returned, response_terminator)
                     \o response_bytes \o port_buffer = device
    /\ LET frames == Frames(device, response_terminator)
       IN (/\ Len(frames) = 1
           /\ device = frames[1] \o response_terminator
           /\ ~DecodeRaises(frames[1])
           /\ running)
              => /\ returned \in {<<>>, <<Decode(frames[1])>>}
                 /\ (port_buffer = <<>> /\ pc_recv = "call")
                        => returned = <<Decode(frames[1])>>

\* C20, the steps: the call that returns a message returns the text of the
\* bytes its reads returned before the terminator, all of them and in order.
C20_ReturnStep ==
    (Len(returned') = Len(returned) + 1 /\ Last(returned') # None)
        => /\ EndsWithTerminator(Flatten(chunks'), response_terminator)
           /\ Last(returned') =
                  Decode(BeforeTerminator(Flatten(chunks'), response_terminator))
           /\ Flatten(chunks') = Flatten(chunks) \o SubSeq(port_buffer, 1,
                                     Len(port_buffer) - Len(port_buffer'))

\* C20: _receive_message returns exactly the bytes received before the
\* terminator, however one message is split across the reads, with reads of
\* zero bytes and reads that end inside a terminator of several bytes.
C20_ExactBytes == []C20_ExactState /\ [][C20_ReturnStep]_vars

\* A message with a two-byte terminator has been returned by a call of which
\* one read returned nothing and another ended between the terminator's bytes.
C20_Witness ==
    /\ pc_recv = "call"
    /\ Len(response_terminator) = 2
    /\ returned = << <<"a">> >>
    /\ \E i \in 1..Len(chunks) : chunks[i] = <<>>
    /\ \E j \in 1..(Len(chunks) - 1) :
           /\ chunks[j] # <<>> /\ Last(chunks[j]) = response_terminator[1]
           /\ chunks[j + 1] = <<response_terminator[2]>>

(***************************************************************************)
(* StateStackDevice (scope/util/state_stack.py): push_state, pop_state and *)
(* the context manager in_state, on a device with faithful getters and     *)
(* setters (set_p(v) stores v, get_p() returns what is stored).            *)
(***************************************************************************)
\* push_state calls that may be open at once
MaxDepth == 2
\* in_state blocks that may be open at once
MaxBlocks == 1

\* The properties of the device and the values they take.
Properties == {"x", "y"}
PropValues == {0, 1}
InitialValues == [p \in Properties |-> 0]

\* The keyword arguments of a call: property-value pairs, in the order written,
\* no property twice.
States ==
    {<<>>}
        \cup {<<<<p, v>>>> : p \in Properties, v \in PropValues}
        \cup {state \in {<<<<p, v>>, <<q, w>>>> :
                               p \in Properties, q \in Properties,
                               v \in PropValues, w \in PropValues} :
                  state[1][1] # state[2][1]}

\* (mutant) the values pushed are recorded in place of the old values
OldState_AsPushed(pr, state) == state

\* old_state = {p: getattr(self, 'get_'+p)() for p, v in state.items()}
OldState(pr, state) == [i \in 1..Len(state) |-> <<state[i][1], pr[state[i][1]]>>]

\* _update_push_states: the properties whose value would not change are dropped
\* from state and from old_state
RECURSIVE UpdatePushStates(_, _)
UpdatePushStates(pr, state) ==
    IF state = <<>> THEN <<>>
    ELSE IF pr[Head(state)[1]] = Head(state)[2]
         THEN UpdatePushStates(pr, Tail(state))
         ELSE <<Head(state)>> \o UpdatePushStates(pr, Tail(state))

\* _set_state, its first n setter calls: getattr(self, 'set_'+p)(v)
RECURSIVE SetState(_, _, _)
SetState(pr, properties_and_values, n) ==
    IF n = 0 THEN pr
    ELSE [SetState(pr, properties_and_values, n - 1)
              EXCEPT ![properties_and_values[n][1]] = properties_and_values[n][2]]

\* What every call records of the device when it begins.
Frame(kind, state) ==
    [kind |-> kind, named |-> {state[i][1] : i \in 1..Len(state)},
     before |-> props, depth |-> Len(state_stack)]
NoFrame == [kind |-> "none", named |-> {}, before |-> InitialValues, depth |-> 0]

notSS == <<mmVars, rpcVars, nsVars, serialVars, jobVars, liveVars>>

\* StateStackDevice.__init__
InitSS ==
    /\ props = InitialValues
    /\ state_stack = <<>>
    /\ open = <<>>
    /\ ss_last = [frame |-> NoFrame, exit |-> "none"]
    \* the other parts are not part of this specification
    /\ manager = "Echo"
    /\ pending_grouped_responses = EmptyTable
    /\ pending_standalone_responses = EmptyTable
    /\ running = FALSE /\ pc_run = "start" /\ response = None /\ response_key = None
    /\ handled = FALSE /\ remaining_callbacks = <<>> /\ pc_send = "idle"
    /\ regs = <<>> /\ recvs = <<>> /\ calls = <<>> /\ unexpected = <<>> /\ sent = <<>>
    /\ stop_requested = FALSE
    /\ timeout_sec = 0 /\ heartbeat_error = FALSE /\ socket = 0 /\ interrupt_socket = 0
    /\ heartbeat_client = 0 /\ addrs = <<>> /\ objects = 0 /\ closed = {} /\ now = 0
    /\ pc_call = "idle" /\ timeout_time = 0 /\ poll_until = 0 /\ interrupted = FALSE
    /\ inbox = <<>> /\ awaiting = FALSE /\ missed = 0 /\ result = <<>> /\ wait = <<>>
    /\ counts = <<>>
    /\ pc_ns = "unbuilt" /\ catalog = <<>> /\ classes = EmptyTable /\ dicts = EmptyTable
    /\ attrs_locked = {} /\ ns_requests = <<>> /\ ns_last = <<>> /\ ns_ops = 0
    /\ response_terminator = <<>> /\ port_buffer = <<>> /\ read_size = 0
    /\ response_bytes = <<>> /\ pc_recv = "unused" /\ device = <<>> /\ returned = <<>>
    /\ chunks = <<>>
    /\ jobs = <<>> /\ job_file = "" /\ asleep = FALSE /\ daemon_running = FALSE
    /\ pc_d = "unused" /\ job = <<>> /\ sighup_pending = FALSE /\ sigint_pending = FALSE
    /\ pc_client = "idle" /\ pc_stop = "idle" /\ died = "" /\ runs = <<>> /\ client_ops = 0
    /\ image_received = FALSE /\ frame_no = NoFrameNo /\ pc_get = "unused"
    /\ get_image = [image |-> NoFrameNo, set_by |-> NoFrameNo]
    /\ pc_update = [at |-> "idle", frame_no |-> NoFrameNo]
    /\ live = [published |-> 0, callbacks |-> 0, set_by |-> NoFrameNo, returns |-> 0,
               since_return |-> 0, since_clear |-> 0]
    /\ got = [image |-> NoFrameNo, frame_no |-> NoFrameNo, set_by |-> NoFrameNo, raised |-> ""]

\* The body of push_state(**state) when the raises-th setter call raises (0: no
\* setter raises): the setters before it have been applied, and line 44 is
\* reached only when none raised.
PushStateBody(state, raises) ==
    LET new_state == UpdatePushStates(props, state)
        old_state == OldState(props, new_state)
    IN IF raises = 0
       THEN /\ props' = SetState(props, new_state, Len(new_state))
            /\ state_stack' = Append(state_stack, old_state)
       ELSE /\ raises <= Len(new_state)
            /\ props' = SetState(props, new_state, raises - 1)
            /\ UNCHANGED state_stack

\* The body of pop_state()
PopStateBody ==
    LET old_state == state_stack[Len(state_stack)]
    IN /\ state_stack' = SubSeq(state_stack, 1, Len(state_stack) - 1)
       /\ props' = SetState(props, old_state, Len(old_state))

\* device.push_state(**state)
PushState(state) ==
    /\ UNCHANGED notSS
    /\ Len(open) < MaxDepth
    /\ PushStateBody(state, 0)
    /\ open' = Append(open, Frame("push_state", state))
    /\ UNCHANGED ss_last

\* device.pop_state(), matching the last push_state that is open
PopState ==
    /\ UNCHANGED notSS
    /\ open # <<>> /\ open[Len(open)].kind = "push_state"
    /\ PopStateBody
    /\ open' = SubSeq(open, 1, Len(open) - 1)
    /\ ss_last' = [frame |-> open[Len(open)], exit |-> "pop_state"]

NextStack ==
    \/ \E state \in States : PushState(state)
    \/ PopState

\* Calls of push_state and pop_state, properly nested.
SpecStack == InitSS /\ [][NextStack]_vars

\* with device.in_state(**state): line 60, up to the yield. A setter that
\* raises ends push_state and in_state at once (line 60 is outside the try).
EnterInState(state, raises) ==
    /\ UNCHANGED notSS
    /\ Len(open) < MaxBlocks
    /\ PushStateBody(state, raises)
    /\ IF raises = 0
       THEN /\ open' = Append(open, Frame("in_state", state))
            /\ UNCHANGED ss_last
       ELSE /\ ss_last' = [frame |-> Frame("in_state", state), exit |-> "setter raised"]
            /\ UNCHANGED open

\* The body of the with block calls a setter of the device.
BodySets(p, v) ==
    /\ UNCHANGED notSS
    /\ open # <<>> /\ open[Len(open)].kind = "in_state"
    /\ props' = [props EXCEPT ![p] = v]
    /\ UNCHANGED <<state_stack, open, ss_last>>

\* The with block is left, at its end or by an exception of its body: the
\* finally clause calls pop_state (lines 63-64).
LeaveInState(exit) ==
    /\ UNCHANGED notSS
    /\ open # <<>> /\ open[Len(open)].kind = "in_state"
    /\ PopStateBody
    /\ open' = SubSeq(open, 1, Len(open) - 1)
    /\ ss_last' = [frame |-> open[Len(open)], exit |-> exit]

NextInState ==
    \/ \E state \in States, raises \in 0..2 : EnterInState(state, raises)
    \/ \E p \in Properties, v \in PropValues : BodySets(p, v)
    \/ \E exit \in {"normal", "body raised"} : LeaveInState(exit)

\* Nested with blocks of in_state, setters that may raise, bodies that set
\* properties.
SpecInState == InitSS /\ [][NextInState]_vars

\* C26, the steps: the pop_state that matches a push_state leaves every
\* property named in the push with the value it had just before the push, and
\* the stack as deep as it was before the push.
C26_PopStep ==
    (Len(open') < Len(open))
        => LET frame == open[Len(open)]
           IN /\ \A p \in frame.named : props'[p] = frame.before[p]
              /\ props' = frame.before
              /\ Len(state_stack') = frame.depth

\* C26, the states: the stack holds one entry for each push that is open, and
\* when every push has been popped the device has its initial values and the
\* stack is empty.
C26_BalancedState ==
    /\ Len(state_stack) = Len(open)
    /\ open = <<>> => (props = InitialValues /\ state_stack = <<>>)

\* C26: properly nested push_state and pop_state calls restore, at each pop,
\* the values the properties had before the matching push, and in the end the
\* initial values with an empty stack.
C26_PushPopRestores == []C26_BalancedState /\ [][C26_PopStep]_vars

\* An inner push_state that changed a property again has been popped while the
\* outer push_state is open: the property has the value the outer push gave it.
C26_Witness ==
    /\ Len(open) = 1
    /\ ss_last.exit = "pop_state"
    /\ ss_last.frame.depth = 1
    /\ \E p \in ss_last.frame.named :
           /\ open[1].before[p] = 0
           /\ ss_last.frame.before[p] = 1
           /\ props[p] = 1
           /\ state_stack = << <<<<p, 0>>>> >>

\* C27 (as claimed): however an in_state block is left (at its end, by an
\* exception of its body, or by a setter that raises while the new state is
\* applied), the properties named have their prior values and the stack has the
\* depth it had before entry.
C27_InStateRestores ==
    [][(ss_last' # ss_last)
           => /\ \A p \in ss_last'.frame.named : props'[p] = ss_last'.frame.before[p]
              /\ Len(state_stack') = ss_last'.frame.depth
      ]_vars

\* C38 (as claimed): the pop_state that ends an in_state block leaves every
\* property named in the push with the value it had before the push, whatever
\* the body of the block did to it.
C38_EveryNamedRestored ==
    [][(Len(open') < Len(open))
           => \A p \in open[Len(open)].named : props'[p] = open[Len(open)].before[p]
      ]_vars

(***************************************************************************)
(* JobRunner (scope/timecourse/scope_job_runner.py): the daemon's main     *)
(* loop, the clients that change the job file and signal the daemon, and   *)
(* stop(). Time stands still in this model: a job's next_run_time is 0     *)
(* (due), Later (not due in the time the model covers) or None, and a      *)
(* sleep ends only when a signal handler raises InterruptedError.          *)
(***************************************************************************)
\* job runs the daemon makes, and calls of add_job, resume_job, remove_job and
\* suspend_job
MaxRuns == 2
MaxClientOps == 2

ExecFiles == {"j1", "j2"}
Later == 1
\* next_run_time = None
NoTime == -1
NoJob == [exec_file |-> "", next_run_time |-> NoTime, status |-> ""]
STATUS_QUEUED == "queued"
STATUS_ERROR == "error"
STATUS_SUSPENDED == "suspended"

\* What a job's process gives: its return code and its standard output.
Outcomes ==
    {[returncode |-> 0, stdout |-> ""], [returncode |-> 0, stdout |-> "0"],
     [returncode |-> 0, stdout |-> "1"], [returncode |-> 0, stdout |-> "soon"],
     [returncode |-> 1, stdout |-> ""]}

\* float(stdout_data)
FloatRaises(s) == s \notin {"0", "1"}
Float(s) == IF s = "0" THEN 0 ELSE 1

\* The jobs of the backing file are kept as a list, in the order of the dict
\* they are read into. jobs[exec_file] = _Job(...) in _JobList.add:
Index(js, exec_file) ==
    IF \E i \in 1..Len(js) : js[i].exec_file = exec_file
    THEN CHOOSE i \in 1..Len(js) : js[i].exec_file = exec_file
    ELSE 0
HasJob(js, exec_file) == Index(js, exec_file) # 0
JobsAdd(js, exec_file, next_run_time, status) ==
    LET j == [exec_file |-> exec_file, next_run_time |-> next_run_time, status |-> status]
    IN IF HasJob(js, exec_file)
       THEN [js EXCEPT ![Index(js, exec_file)] = j]
       ELSE Append(js, j)

\* (mutant) the update after a run queues the job again
UpdateNextRunTime_Queues(js, exec_file, next_run_time) ==
    JobsAdd(js, exec_file, next_run_time, STATUS_QUEUED)

\* (mutant) jobs that are not queued are taken as well
Runnable_AnyStatus(j) == j.next_run_time # NoTime

\* _JobList.update(exec_file, status=...) and update(exec_file, next_run_time=...)
\* for a job that is in the file
UpdateStatus(js, exec_file, status) ==
    JobsAdd(js, exec_file, js[Index(js, exec_file)].next_run_time, status)
UpdateNextRunTime(js, exec_file, next_run_time) ==
    JobsAdd(js, exec_file, next_run_time, js[Index(js, exec_file)].status)

\* The key of get_jobs' sort: None sorts last
SortKey(j) == IF j.next_run_time = NoTime THEN Later + 1 ELSE j.next_run_time

\* _get_next_job: job.status == STATUS_QUEUED and job.next_run_time is not None
Runnable(j) == j.status = STATUS_QUEUED /\ j.next_run_time # NoTime

\* _get_next_job: the first runnable job of the list sorted (stably) by time
GetNextJob(js) ==
    LET cand == {i \in 1..Len(js) : Runnable(js[i])}
    IN IF cand = {} THEN NoJob
       ELSE js[CHOOSE i \in cand :
                   \A k \in cand : \/ SortKey(js[i]) < SortKey(js[k])
                                   \/ SortKey(js[i]) = SortKey(js[k]) /\ i <= k]

\* job.next_run_time > time.time(), the time being 0
NotYetDue(j) == j.next_run_time > 0

notJobs == <<mmVars, rpcVars, nsVars, serialVars, ssVars, liveVars>>

\* The daemon has been started (Runner.start) and is about to enter run_daemon;
\* the job file is empty and no job file marker exists.
InitJobs ==
    /\ jobs = <<>>
    /\ job_file = NoJob.exec_file
    /\ asleep = FALSE
    /\ daemon_running = FALSE
    /\ pc_d = "start"
    /\ job = NoJob
    /\ sighup_pending = FALSE
    /\ sigint_pending = FALSE
    /\ pc_client = "idle"
    /\ pc_stop = "idle"
    /\ died = ""
    /\ runs = <<>>
    /\ client_ops = 0
    \* the other parts are not part of this specification
    /\ image_received = FALSE /\ frame_no = NoFrameNo /\ pc_get = "unused"
    /\ get_image = [image |-> NoFrameNo, set_by |-> NoFrameNo]
    /\ pc_update = [at |-> "idle", frame_no |-> NoFrameNo]
    /\ live = [published |-> 0, callbacks |-> 0, set_by |-> NoFrameNo, returns |-> 0,
               since_return |-> 0, since_clear |-> 0]
    /\ got = [image |-> NoFrameNo, frame_no |-> NoFrameNo, set_by |-> NoFrameNo, raised |-> ""]
    /\ manager = "Echo"
    /\ pending_grouped_responses = EmptyTable
    /\ pending_standalone_responses = EmptyTable
    /\ running = FALSE /\ pc_run = "start" /\ response = None /\ response_key = None
    /\ handled = FALSE /\ remaining_callbacks = <<>> /\ pc_send = "idle"
    /\ regs = <<>> /\ recvs = <<>> /\ calls = <<>> /\ unexpected = <<>> /\ sent = <<>>
    /\ stop_requested = FALSE
    /\ timeout_sec = 0 /\ heartbeat_error = FALSE /\ socket = 0 /\ interrupt_socket = 0
    /\ heartbeat_client = 0 /\ addrs = <<>> /\ objects = 0 /\ closed = {} /\ now = 0
    /\ pc_call = "idle" /\ timeout_time = 0 /\ poll_until = 0 /\ interrupted = FALSE
    /\ inbox = <<>> /\ awaiting = FALSE /\ missed = 0 /\ result = <<>> /\ wait = <<>>
    /\ counts = <<>>
    /\ pc_ns = "unbuilt" /\ catalog = <<>> /\ classes = EmptyTable /\ dicts = EmptyTable
    /\ attrs_locked = {} /\ ns_requests = <<>> /\ ns_last = <<>> /\ ns_ops = 0
    /\ response_terminator = <<>> /\ port_buffer = <<>> /\ read_size = 0
    /\ response_bytes = <<>> /\ pc_recv = "unused" /\ device = <<>> /\ returned = <<>>
    /\ chunks = <<>>
    /\ props = <<>> /\ state_stack = <<>> /\ open = <<>> /\ ss_last = <<>>

DaemonAlive == pc_d \notin {"exited", "terminated"}

\* lines 166-167
RunDaemon ==
    /\ UNCHANGED notJobs
    /\ pc_d = "start"
    /\ asleep' = FALSE
    /\ daemon_running' = TRUE
    /\ pc_d' = "loop"
    /\ UNCHANGED <<jobs, job_file, job, sighup_pending, sigint_pending, pc_client,
                   pc_stop, died, runs, client_ops>>

\* line 168: while self.running
WhileDaemonRunning ==
    /\ UNCHANGED notJobs
    /\ pc_d = "loop"
    /\ pc_d' = IF daemon_running THEN "get" ELSE "exited"
    /\ UNCHANGED <<jobs, job_file, asleep, daemon_running, job, sighup_pending,
                   sigint_pending, pc_client, pc_stop, died, runs, client_ops>>

\* lines 169-176: the job file is read and the daemon decides to run or sleep
GetJob ==
    /\ UNCHANGED notJobs
    /\ pc_d = "get"
    /\ LET next == GetNextJob(jobs)
       IN IF next # NoJob /\ ~NotYetDue(next)
          THEN /\ job' = next
               /\ pc_d' = "set"
          ELSE /\ job' = NoJob
               /\ pc_d' = "set_asleep"
    /\ UNCHANGED <<jobs, job_file, asleep, daemon_running, sighup_pending,
                   sigint_pending, pc_client, pc_stop, died, runs, client_ops>>

\* line 178: self.current_job.set(job)
SetCurrentJob ==
    /\ UNCHANGED notJobs
    /\ pc_d = "set"
    /\ Len(runs) < MaxRuns
    /\ job_file' = job.exec_file
    /\ pc_d' = "run"
    /\ UNCHANGED <<jobs, asleep, daemon_running, job, sighup_pending, sigint_pending,
                   pc_client, pc_stop, died, runs, client_ops>>

\* _job_broke: self.jobs.update(job.exec_file, status=new_status)
JobBroke(js, j) == UpdateStatus(js, j.exec_file, STATUS_ERROR)


\* line 179, _run_job: the job's process ends and its output is interpreted.
\* When float() raises, the except clause of line 207 formats its message with
\* next_run_time, which has no value yet: UnboundLocalError leaves _run_job and
\* run_daemon (line 180 is not reached) and Runner.start logs it (lines 89-90).
\* When the job is no longer in the file, the update of line 212 (or of line
\* 224) fails in _get_job, whose raise statement names the undefined job:
\* NameError leaves run_daemon the same way.
RunJob(outcome) ==
    /\ UNCHANGED notJobs
    /\ pc_d = "run"
    /\ runs' = Append(runs, [exec_file |-> job.exec_file, outcome |-> outcome,
                              was |-> IF HasJob(jobs, job.exec_file)
                                      THEN jobs[Index(jobs, job.exec_file)].status
                                      ELSE "removed"])
    /\ IF outcome.returncode = 0 /\ outcome.stdout # "" /\ FloatRaises(outcome.stdout)
       THEN /\ pc_d' = "terminated"
            /\ died' = "UnboundLocalError"
            /\ UNCHANGED jobs
       ELSE IF ~HasJob(jobs, job.exec_file)
       THEN /\ pc_d' = "terminated"
            /\ died' = "NameError"
            /\ UNCHANGED jobs
       ELSE IF outcome.returncode # 0
       THEN /\ jobs' = JobBroke(jobs, job)
            /\ pc_d' = "clear"
            /\ UNCHANGED died
       ELSE /\ jobs' = UpdateNextRunTime(jobs, job.exec_file,
                           IF outcome.stdout # "" THEN Float(outcome.stdout) ELSE NoTime)
            /\ pc_d' = "clear"
            /\ UNCHANGED died
    /\ UNCHANGED <<job_file, asleep, daemon_running, job, sighup_pending, sigint_pending,
                   pc_client, pc_stop, client_ops>>

\* line 180: self.current_job.clear()
ClearCurrentJob ==
    /\ UNCHANGED notJobs
    /\ pc_d = "clear"
    /\ job_file' = NoJob.exec_file
    /\ pc_d' = "loop"
    /\ UNCHANGED <<jobs, asleep, daemon_running, job, sighup_pending, sigint_pending,
                   pc_client, pc_stop, died, runs, client_ops>>

\* line 183: self.asleep = True
SetAsleep ==
    /\ UNCHANGED notJobs
    /\ pc_d = "set_asleep"
    /\ asleep' = TRUE
    /\ pc_d' = "log"
    /\ UNCHANGED <<jobs, job_file, daemon_running, job, sighup_pending, sigint_pending,
                   pc_client, pc_stop, died, runs, client_ops>>

\* lines 184-186: the daemon logs, enters the try and blocks in time.sleep
Sleep ==
    /\ UNCHANGED notJobs
    /\ pc_d = "log"
    /\ pc_d' = "sleeping"
    /\ UNCHANGED <<jobs, job_file, asleep, daemon_running, job, sighup_pending,
                   sigint_pending, pc_client, pc_stop, died, runs, client_ops>>

\* line 189: self.asleep = False
Awake ==
    /\ UNCHANGED notJobs
    /\ pc_d = "awake"
    /\ asleep' = FALSE
    /\ pc_d' = "loop"
    /\ UNCHANGED <<jobs, job_file, daemon_running, job, sighup_pending, sigint_pending,
                   pc_client, pc_stop, died, runs, client_ops>>

\* raise InterruptedError() in a signal handler: inside the try of lines 185-188
\* it ends the sleep; anywhere else it leaves run_daemon.
RaiseInterrupted ==
    IF pc_d = "sleeping"
    THEN pc_d' = "awake" /\ UNCHANGED died
    ELSE pc_d' = "terminated" /\ died' = "InterruptedError"

\* The daemon's process runs sighup_handler (lines 154-158).
SighupHandler ==
    /\ UNCHANGED notJobs
    /\ sighup_pending /\ DaemonAlive
    /\ sighup_pending' = FALSE
    /\ IF asleep THEN RaiseInterrupted ELSE UNCHANGED <<pc_d, died>>
    /\ UNCHANGED <<jobs, job_file, asleep, daemon_running, job, sigint_pending,
                   pc_client, pc_stop, runs, client_ops>>

\* The daemon's process runs sigint_handler (lines 141-152).
SigintHandler ==
    /\ UNCHANGED notJobs
    /\ sigint_pending /\ DaemonAlive
    /\ sigint_pending' = FALSE
    /\ IF daemon_running
       THEN /\ daemon_running' = FALSE
            /\ IF asleep THEN RaiseInterrupted ELSE UNCHANGED <<pc_d, died>>
       ELSE /\ pc_d' = "terminated"
            /\ died' = "SystemExit"
            /\ UNCHANGED daemon_running
    /\ UNCHANGED <<jobs, job_file, asleep, job, sighup_pending, pc_client, pc_stop,
                   runs, client_ops>>

\* add_job(exec_file, alert_emails, next_run_time): lines 46-47
AddJob(exec_file, next_run_time) ==
    /\ UNCHANGED notJobs
    /\ pc_client = "idle" /\ DaemonAlive /\ pc_d # "start"
    /\ client_ops < MaxClientOps
    /\ jobs' = JobsAdd(jobs, exec_file, next_run_time, STATUS_QUEUED)
    /\ pc_client' = "awaken"
    /\ client_ops' = client_ops + 1
    /\ UNCHANGED <<job_file, asleep, daemon_running, pc_d, job, sighup_pending,
                   sigint_pending, pc_stop, died, runs>>

\* resume_job(exec_file): lines 73-76, for a job that is in the file
ResumeJob(exec_file) ==
    /\ UNCHANGED notJobs
    /\ pc_client = "idle" /\ DaemonAlive /\ pc_d # "start"
    /\ client_ops < MaxClientOps
    /\ HasJob(jobs, exec_file)
    /\ jobs' = UpdateStatus(jobs, exec_file, STATUS_QUEUED)
    /\ pc_client' = "awaken"
    /\ client_ops' = client_ops + 1
    /\ UNCHANGED <<job_file, asleep, daemon_running, pc_d, job, sighup_pending,
                   sigint_pending, pc_stop, died, runs>>

\* remove_job(exec_file): lines 54-55, for a job that is in the file
RemoveJob(exec_file) ==
    /\ UNCHANGED notJobs
    /\ pc_client = "idle" /\ DaemonAlive /\ pc_d # "start"
    /\ client_ops < MaxClientOps
    /\ HasJob(jobs, exec_file)
    /\ jobs' = SelectSeq(jobs, LAMBDA j : j.exec_file # exec_file)
    /\ pc_client' = "awaken"
    /\ client_ops' = client_ops + 1
    /\ UNCHANGED <<job_file, asleep, daemon_running, pc_d, job, sighup_pending,
                   sigint_pending, pc_stop, died, runs>>

\* suspend_job(exec_file): lines 63-64, for a job that is in the file
SuspendJob(exec_file) ==
    /\ UNCHANGED notJobs
    /\ pc_client = "idle" /\ DaemonAlive /\ pc_d # "start"
    /\ client_ops < MaxClientOps
    /\ HasJob(jobs, exec_file)
    /\ jobs' = UpdateStatus(jobs, exec_file, STATUS_SUSPENDED)
    /\ pc_client' = "awaken"
    /\ client_ops' = client_ops + 1
    /\ UNCHANGED <<job_file, asleep, daemon_running, pc_d, job, sighup_pending,
                   sigint_pending, pc_stop, died, runs>>

\* _awaken_daemon: self.signal(signal.SIGHUP)
AwakenDaemon ==
    /\ UNCHANGED notJobs
    /\ pc_client = "awaken"
    /\ sighup_pending' = DaemonAlive
    /\ pc_client' = "idle"
    /\ UNCHANGED <<jobs, job_file, asleep, daemon_running, pc_d, job, sigint_pending,
                   pc_stop, died, runs, client_ops>>

\* stop(), lines 127-128: SIGINT is sent (stop() may be called again once an
\* earlier call has returned)
Stop_Signal ==
    /\ UNCHANGED notJobs
    /\ pc_stop \in {"idle", "returned"} /\ DaemonAlive /\ pc_d # "start"
    /\ sigint_pending' = TRUE
    /\ pc_stop' = "wait"
    /\ UNCHANGED <<jobs, job_file, asleep, daemon_running, pc_d, job, sighup_pending,
                   pc_client, died, runs, client_ops>>

\* stop(), line 132: self.current_job.wait() finds no job file
Stop_Returns ==
    /\ UNCHANGED notJobs
    /\ pc_stop = "wait"
    /\ job_file = NoJob.exec_file
    /\ pc_stop' = "returned"
    /\ UNCHANGED <<jobs, job_file, asleep, daemon_running, pc_d, job, sighup_pending,
                   sigint_pending, pc_client, died, runs, client_ops>>

NextJobs ==
    \/ RunDaemon
    \/ WhileDaemonRunning
    \/ GetJob
    \/ SetCurrentJob
    \/ \E outcome \in Outcomes : RunJob(outcome)
    \/ ClearCurrentJob
    \/ SetAsleep
    \/ Sleep
    \/ Awake
    \/ SighupHandler
    \/ SigintHandler
    \/ \E exec_file \in ExecFiles, next_run_time \in {0, Later} :
           AddJob(exec_file, next_run_time)
    \/ \E exec_file \in ExecFiles : ResumeJob(exec_file)
    \/ \E exec_file \in ExecFiles : RemoveJob(exec_file)
    \/ \E exec_file \in ExecFiles : SuspendJob(exec_file)
    \/ AwakenDaemon
    \/ Stop_Signal
    \/ Stop_Returns

SpecJobs == InitJobs /\ [][NextJobs]_vars

\* A job of the file that is queued and due.
DueJob == \E i \in 1..Len(jobs) : Runnable(jobs[i]) /\ ~NotYetDue(jobs[i])

\* C28 (as claimed): once a client has written a due job and its SIGHUP has
\* been handled, the daemon is not left in a sleep that only its expiry ends,
\* nor ended by the signal: it goes on to run the job.
C28_DueJobAwakens ==
    (DueJob /\ pc_client = "idle" /\ ~sighup_pending /\ ~sigint_pending
            /\ pc_stop = "idle")
        => /\ pc_d \notin {"log", "sleeping"}
           /\ died # "InterruptedError"

\* C29 (as claimed): when a job's process returns a non-zero code or prints a
\* next-run time that is no number, the job's status becomes 'error' and the
\* daemon goes on with its loop; a job is run only while its status is
\* 'queued', so a job that broke is not run before it is resumed.
C29_BrokenJobSetAside ==
    [][/\ (Len(runs') = Len(runs) + 1
              /\ LET outcome == runs'[Len(runs')].outcome
                 IN \/ outcome.returncode # 0
                    \/ outcome.stdout # "" /\ FloatRaises(outcome.stdout))
          => /\ jobs'[Index(jobs', job.exec_file)].status = STATUS_ERROR
             /\ pc_d' = "clear"
       /\ (pc_d = "set" /\ pc_d' = "run")
          => jobs[Index(jobs, job.exec_file)].status = STATUS_QUEUED
      ]_vars

\* C30 (as claimed): the job file marker exists exactly while the daemon is
\* executing a job, and stop() waits only as long as a job is executing.
C30_MarkerWhileExecuting ==
    /\ (job_file # NoJob.exec_file) <=> (pc_d \in {"run", "clear"})
    /\ (pc_stop = "wait" /\ job_file # NoJob.exec_file) => pc_d \in {"run", "clear"}

\* C31 (as claimed): remove_job for the job that is running leaves the run
\* alone (the daemon stays at the run and the marker stays), and when that run
\* ends the daemon is still running and goes on with its loop.
C31_RemoveWhileRunning ==
    [][/\ (pc_d = "run" /\ pc_client' = "awaken" /\ pc_client = "idle")
          => (pc_d' = "run" /\ job_file' = job_file)
       /\ (Len(runs') = Len(runs) + 1 /\ ~HasJob(jobs, job.exec_file)
              /\ runs'[Len(runs')].outcome.stdout # "soon")
          => pc_d' = "clear"
      ]_vars

\* The run that ends in this step, and the job's entry in the file after it.
RunEnds == Len(runs') = Len(runs) + 1
EndedRun == runs'[Len(runs')]
StatusAfter == jobs'[Index(jobs', job.exec_file)].status

\* C32 (as claimed): a job suspended while it runs has the status 'suspended'
\* when the run has ended.
C32_StillSuspended ==
    [][(RunEnds /\ EndedRun.was = STATUS_SUSPENDED)
          => StatusAfter = STATUS_SUSPENDED]_vars

\* C32 (amended): suspend_job leaves the run alone; when the run of a suspended
\* job ends, its status is 'suspended' if the process returned 0 and 'error' if
\* it returned another code; the daemon selects only queued jobs, and only a
\* client call (resume_job, add_job) makes a job queued again.
C32_SuspendedNotRequeued ==
    [][/\ (pc_d = "run" /\ pc_client = "idle" /\ pc_client' = "awaken")
          => (pc_d' = "run" /\ job_file' = job_file)
       /\ (RunEnds /\ EndedRun.was = STATUS_SUSPENDED)
          => StatusAfter = IF EndedRun.outcome.returncode = 0
                           THEN STATUS_SUSPENDED ELSE STATUS_ERROR
       /\ (pc_d = "get" /\ pc_d' = "set") => job'.status = STATUS_QUEUED
       /\ \A i \in 1..Len(jobs) :
             (/\ jobs[i].status # STATUS_QUEUED
              /\ HasJob(jobs', jobs[i].exec_file)
              /\ jobs'[Index(jobs', jobs[i].exec_file)].status = STATUS_QUEUED)
             => (pc_client = "idle" /\ pc_client' = "awaken")
      ]_vars

\* A job was suspended while it ran, its process returned 0 and printed the
\* time 0, and the file now holds it as suspended with that time.
C32_Witness ==
    /\ pc_d = "clear"
    /\ runs[Len(runs)].was = STATUS_SUSPENDED
    /\ runs[Len(runs)].outcome = [returncode |-> 0, stdout |-> "0"]
    /\ jobs[Index(jobs, job.exec_file)] =
           [exec_file |-> job.exec_file, next_run_time |-> 0, status |-> STATUS_SUSPENDED]

\* C33: the job the daemon selects is, at that moment, in the file as queued
\* with a next_run_time that is set and not later than now, and no queued job
\* with a set time is earlier; the job it runs is the one it selected.
C33_SelectsEarliestQueued ==
    [][/\ (pc_d = "get" /\ pc_d' = "set")
          => /\ \E i \in 1..Len(jobs) : jobs[i] = job'
             /\ job'.status = STATUS_QUEUED
             /\ job'.next_run_time # NoTime
             /\ job'.next_run_time <= 0
             /\ \A i \in 1..Len(jobs) :
                   (jobs[i].status = STATUS_QUEUED /\ jobs[i].next_run_time # NoTime)
                   => job'.next_run_time <= jobs[i].next_run_time
       /\ (pc_d' = "run" /\ pc_d # "run") => (pc_d = "set" /\ job_file' = job.exec_file)
      ]_vars

\* The daemon has selected a job while the file also held a due job that is
\* not queued, or a queued job that is due later.
C33_Witness ==
    /\ pc_d = "set"
    /\ \E i \in 1..Len(jobs) :
          /\ jobs[i].exec_file # job.exec_file
          /\ jobs[i].next_run_time = 0
          /\ jobs[i].status \in {STATUS_ERROR, STATUS_SUSPENDED}
    /\ \E i \in 1..Len(jobs) :
          /\ jobs[i].exec_file = job.exec_file
          /\ jobs[i].status = STATUS_QUEUED

\* The step is the daemon's process running sigint_handler.
SigintHandled == sigint_pending /\ ~sigint_pending'

\* C34 (as claimed): the first SIGINT does not abort a job in progress, and
\* once it has been handled the daemon does not go to sleep: it leaves its
\* loop when the job in progress, if any, has ended. A second SIGINT ends the
\* daemon at once.
C34_SigintEndsLoop ==
    /\ []((pc_d # "start" /\ ~daemon_running) => pc_d # "sleeping")
    /\ [][/\ ((SigintHandled /\ daemon_running /\ pc_d \in {"run", "clear"})
                  => pc_d' = pc_d)
           /\ ((SigintHandled /\ ~daemon_running) => pc_d' = "terminated")
          ]_vars

(***************************************************************************)
(* LiveStreamer (scope_client.py): the property client's thread calls      *)
(* _live_update(frame_no) for every live frame the server publishes, one   *)
(* call after the other; the main thread calls get_image().  The two       *)
(* threads interleave statement by statement.  self.live, latest_intervals *)
(* and _last_time (lines 108-110, _live_change) take no part in the        *)
(* exchange of the frame number and are left out.                          *)
(***************************************************************************)
\* live frames the server publishes
MaxFrames == 3

notLive == <<mmVars, rpcVars, nsVars, serialVars, ssVars, jobVars>>

\* (mutant) _live_update never finds the event set
is_set_Never(event) == FALSE

\* self.image_received.is_set()
is_set(event) == event

\* LiveStreamer.__init__: the event is clear, frame_no has not been assigned
InitLive ==
    /\ image_received = FALSE
    /\ frame_no = NoFrameNo
    /\ pc_get = "idle"
    /\ get_image = [image |-> NoFrameNo, set_by |-> NoFrameNo]
    /\ pc_update = [at |-> "idle", frame_no |-> NoFrameNo]
    /\ live = [published |-> 0, callbacks |-> 0, set_by |-> NoFrameNo, returns |-> 0,
               since_return |-> 0, since_clear |-> 0]
    /\ got = [image |-> NoFrameNo, frame_no |-> NoFrameNo, set_by |-> NoFrameNo, raised |-> ""]
    \* the other parts are not part of this specification
    /\ manager = "Echo"
    /\ pending_grouped_responses = EmptyTable
    /\ pending_standalone_responses = EmptyTable
    /\ running = FALSE /\ pc_run = "start" /\ response = None /\ response_key = None
    /\ handled = FALSE /\ remaining_callbacks = <<>> /\ pc_send = "idle"
    /\ regs = <<>> /\ recvs = <<>> /\ calls = <<>> /\ unexpected = <<>> /\ sent = <<>>
    /\ stop_requested = FALSE
    /\ timeout_sec = 0 /\ heartbeat_error = FALSE /\ socket = 0 /\ interrupt_socket = 0
    /\ heartbeat_client = 0 /\ addrs = <<>> /\ objects = 0 /\ closed = {} /\ now = 0
    /\ pc_call = "idle" /\ timeout_time = 0 /\ poll_until = 0 /\ interrupted = FALSE
    /\ inbox = <<>> /\ awaiting = FALSE /\ missed = 0 /\ result = <<>> /\ wait = <<>>
    /\ counts = <<>>
    /\ pc_ns = "unbuilt" /\ catalog = <<>> /\ classes = EmptyTable /\ dicts = EmptyTable
    /\ attrs_locked = {} /\ ns_requests = <<>> /\ ns_last = <<>> /\ ns_ops = 0
    /\ response_terminator = <<>> /\ port_buffer = <<>> /\ read_size = 0
    /\ response_bytes = <<>> /\ pc_recv = "unused" /\ device = <<>> /\ returned = <<>>
    /\ chunks = <<>>
    /\ props = <<>> /\ state_stack = <<>> /\ open = <<>> /\ ss_last = <<>>
    /\ jobs = <<>> /\ job_file = "" /\ asleep = FALSE /\ daemon_running = FALSE
    /\ pc_d = "unused" /\ job = <<>> /\ sighup_pending = FALSE /\ sigint_pending = FALSE
    /\ pc_client = "idle" /\ pc_stop = "idle" /\ died = "" /\ runs = <<>> /\ client_ops = 0

\* The server publishes its next live frame and the property client calls
\* _live_update(frame_no): the test of line 130.
LiveUpdate ==
    /\ UNCHANGED notLive
    /\ pc_update.at = "idle"
    /\ live.published < MaxFrames
    /\ LET n == live.published + 1
       IN  IF is_set(image_received)
           THEN /\ pc_update' = [at |-> "idle", frame_no |-> n]
                /\ live' = [live EXCEPT !.published = n]
           ELSE /\ pc_update' = [at |-> "set", frame_no |-> n]
                /\ live' = [live EXCEPT !.published = n,
                                        !.since_return = @ + 1, !.since_clear = @ + 1]
    /\ UNCHANGED <<image_received, frame_no, pc_get, get_image, got>>

\* line 131: self.image_received.set()
LiveUpdate_Set ==
    /\ UNCHANGED notLive
    /\ pc_update.at = "set"
    /\ image_received' = TRUE
    /\ live' = [live EXCEPT !.set_by = pc_update.frame_no]
    /\ pc_update' = [pc_update EXCEPT !.at = "assign"]
    /\ UNCHANGED <<frame_no, pc_get, get_image, got>>

\* line 132: self.frame_no = frame_no
LiveUpdate_Assign ==
    /\ UNCHANGED notLive
    /\ pc_update.at = "assign"
    /\ frame_no' = pc_update.frame_no
    /\ pc_update' = [pc_update EXCEPT !.at = "callback"]
    /\ UNCHANGED <<image_received, pc_get, get_image, live, got>>

\* line 133: self.image_ready_callback()
LiveUpdate_Callback ==
    /\ UNCHANGED notLive
    /\ pc_update.at = "callback"
    /\ live' = [live EXCEPT !.callbacks = @ + 1]
    /\ pc_update' = [pc_update EXCEPT !.at = "idle"]
    /\ UNCHANGED <<image_received, frame_no, pc_get, get_image, got>>

\* The main thread calls get_image().
GetImage_Call ==
    /\ UNCHANGED notLive
    /\ pc_get = "idle"
    /\ pc_get' = "wait"
    /\ UNCHANGED <<image_received, frame_no, get_image, pc_update, live, got>>

\* line 105: self.image_received.wait() returns once the event is set
GetImage_Wait ==
    /\ UNCHANGED notLive
    /\ pc_get = "wait"
    /\ image_received
    /\ get_image' = [get_image EXCEPT !.set_by = live.set_by]
    /\ pc_get' = "live_image"
    /\ UNCHANGED <<image_received, frame_no, pc_update, live, got>>

\* line 107: image = self.scope.camera.live_image(), the server's latest frame
GetImage_LiveImage ==
    /\ UNCHANGED notLive
    /\ pc_get = "live_image"
    /\ get_image' = [get_image EXCEPT !.image = live.published]
    /\ pc_get' = "clear"
    /\ UNCHANGED <<image_received, frame_no, pc_update, live, got>>

\* line 111: self.image_received.clear()
GetImage_Clear ==
    /\ UNCHANGED notLive
    /\ pc_get = "clear"
    /\ image_received' = FALSE
    /\ live' = [live EXCEPT !.since_clear = 0]
    /\ pc_get' = "return"
    /\ UNCHANGED <<frame_no, get_image, pc_update, got>>

\* line 112: return image, self.frame_no (AttributeError if frame_no was never assigned)
GetImage_Return ==
    /\ UNCHANGED notLive
    /\ pc_get = "return"
    /\ got' = [image |-> get_image.image, frame_no |-> frame_no,
               set_by |-> get_image.set_by,
               raised |-> IF frame_no = NoFrameNo THEN "AttributeError" ELSE ""]
    /\ live' = [live EXCEPT !.returns = @ + 1, !.since_return = 0]
    /\ pc_get' = "idle"
    /\ UNCHANGED <<image_received, frame_no, get_image, pc_update>>

NextLive ==
    \/ LiveUpdate
    \/ LiveUpdate_Set
    \/ LiveUpdate_Assign
    \/ LiveUpdate_Callback
    \/ GetImage_Call
    \/ GetImage_Wait
    \/ GetImage_LiveImage
    \/ GetImage_Clear
    \/ GetImage_Return

SpecLive == InitLive /\ [][NextLive]_vars

\* C39 (as claimed): between two completions of get_image() at most one update
\* is accepted (passes the test of line 130).
C39_OneAcceptedBetweenCompletions == live.returns > 0 => live.since_return <= 1

\* C39 (amended): an update that finds image_received set is ignored, it neither
\* assigns frame_no nor calls image_ready_callback, and between two clears of
\* the event by get_image() at most one update is accepted.
C39_IgnoredWhileSet ==
    /\ [](live.since_clear <= 1)
    /\ [][(live'.published # live.published /\ image_received)
              => /\ pc_update'.at = "idle"
                 /\ frame_no' = frame_no
                 /\ live'.callbacks = live.callbacks
                 /\ live'.since_clear = live.since_clear
         ]_vars
    /\ [][(frame_no' # frame_no \/ live'.callbacks # live.callbacks)
              => pc_update.frame_no = live.set_by
         ]_vars

\* An update was ignored because the event was set, after an earlier update had
\* been accepted and delivered by callback.
C39_Witness ==
    /\ image_received
    /\ pc_update.at = "idle"
    /\ live.published > live.set_by
    /\ live.set_by # NoFrameNo
    /\ live.callbacks = 1
    /\ frame_no = live.set_by

\* C40 (as claimed): get_image() returns the frame number of the update whose
\* set() of image_received let its wait() return.
C40_ReturnsFrameOfItsUpdate ==
    live.returns > 0 => (got.raised = "" /\ got.frame_no = got.set_by)

====
